---- MODULE Spec2Model ----
(***************************************************************************)
(* Retrieval core of the healthcare RAG application.                       *)
(*                                                                         *)
(* LocalRetriever (app/retriever/local_retriever.py) keeps a tensor of     *)
(* embeddings and a parallel list of chunk dictionaries and answers        *)
(* search(query_embedding, top_k) by a dot-product scan and torch.topk.    *)
(*                                                                         *)
(* Numbers: vector components are the source's floats scaled by 10, so a   *)
(* dot product is the source's score scaled by 100 (1.0 -> 100, 0.7 -> 70).*)
(* Positions: the source's 0-based row index i is row i+1 of a sequence;   *)
(* the 'id' written into a result is the 0-based index, as in the source.  *)
(***************************************************************************)
EXTENDS Integers, Sequences, FiniteSets, TLC

VARIABLES
    embeddings,      \* self.embeddings: None or Some(tensor [dim, rows])
    chunks,          \* self.chunks: None or Some(list of chunk dictionaries)
    TOP_K_RESULTS,   \* settings.TOP_K_RESULTS, read from the environment
    tiePolicy,       \* how this build's torch.topk orders equal scores
    call,            \* the last call made on the retriever, with its arguments
    result,          \* what that call returned or raised
    \* history of repeated searches
    first,           \* the first search since construction: arguments, outcome
    again,           \* the outcome of the latest search with those arguments
    between,         \* a search with other arguments ran after the first
    \* concurrent use: search threads and one loading thread
    pc,              \* per search thread: "idle", "checked" or "scored"
    local,           \* per search thread: the locals of its search call
    loader,          \* the load_embeddings call between its two assignments
    embVer,          \* history: the load that wrote self.embeddings
    chunksVer,       \* history: the load that wrote self.chunks
    nloads,          \* history: load_embeddings calls started
    \* the application around the retriever
    formatted,       \* per retriever: its last format_context call and return
    documents,       \* the remote documents table, as one query meets it
    remoteCall,      \* the last SupabaseRetriever.search call and its outcome
    masked,          \* the last embedding or count call and its outcome
    touched,         \* resources loaded or created during a construction
    built,           \* the last construction and its outcome
    run,             \* the last end-to-end query and its outcome
    prev,            \* the failed end-to-end query before it
    \* the tools around the application, one call or session of each
    rpc,             \* a SupabaseRetriever.search call, step by step
    generation,      \* the generator call RAGPipeline.query made
    inserting,       \* a SupabaseVectorDB.insert_chunks call and its table
    chunker,         \* a chunk_page_by_sentences generator, step by step
    reingest,        \* a run of ingest.main, step by step
    components,      \* the API server's singletons that startup created
    session,         \* an interactive question loop
    request          \* the body of the last POST /api/query

retrieverVars == <<embeddings, chunks, TOP_K_RESULTS, tiePolicy>>
repeatVars == <<first, again, between>>
threadVars == <<pc, local, loader, embVer, chunksVer, nloads>>
callVars == <<call, result>>
toolVars == <<rpc, generation, inserting, chunker, reingest, components, session,
              request>>
appVars == <<formatted, documents, remoteCall, masked, touched, built, run, prev,
             toolVars>>
vars == <<embeddings, chunks, TOP_K_RESULTS, tiePolicy, call, result,
          first, again, between, pc, local, loader, embVer, chunksVer, nloads,
          formatted, documents, remoteCall, masked, touched, built, run, prev,
          rpc, generation, inserting, chunker, reingest, components, session,
          request>>

\* An optional Python value: None, or Some(v) holding v.
None == <<>>
Some(v) == <<v>>
IsNone(x) == x = None
Val(x) == x[1]

----------------------------------------------------------------------------
(* Bounds and input sets *)

MaxN == 3
MaxTopK == 4
NumSearchers == 2
MaxLoads == 2
DEFAULT_TOP_K_RESULTS == 5

\* Row vectors an index is built from, as cycles: the vectors of the spec's
\* scenario A (v1=[1,0], v2=[0,1], v3=[0.7,0.7]) and a one-dimensional one,
\* so that indexes of two different dimensions D exist.
Rows1 == << <<10>> >>
Rows2 == << <<10, 0>>, <<0, 10>>, <<7, 7>> >>

\* The n rows met from position start of the cycle in steps of step. Up to
\* the length of the cycle these are all orders of different rows; longer
\* ones repeat rows.
Window(cycle, start, step, n) ==
    [p \in 1..n |-> cycle[((start - 1 + step * (p - 1)) % Len(cycle)) + 1]]
Steps(cycle) == IF Len(cycle) = 1 THEN {1} ELSE 1..(Len(cycle) - 1)
Windows(cycle) ==
    {Window(cycle, start, step, n) :
        start \in 1..Len(cycle), step \in Steps(cycle), n \in 0..MaxN}

\* A two-dimensional float tensor of shape (Len(rows), dim).
Tensor(d, rs) == [dim |-> d, rows |-> rs]
Tensors ==
    {Tensor(1, rs) : rs \in Windows(Rows1)} \cup
    {Tensor(2, rs) : rs \in Windows(Rows2)}

\* The index of the spec's scenario A.
ScenarioA == Tensor(2, << <<10, 0>>, <<0, 10>>, <<7, 7>> >>)

\* The chunk dictionary of the passage at 0-based position i, with the keys
\* the callers build: 'sentence_chunk' and 'page_number'.
Texts == <<"alpha", "beta", "gamma", "delta", "epsilon", "zeta">>
Chunk(i) == [sentence_chunk |-> Texts[i + 1], page_number |-> 10 + i]
ChunkList(n) == [p \in 1..n |-> Chunk(p - 1)]
ChunkLists == {ChunkList(n) : n \in 0..MaxN}
\* The chunks of a second document, for an index that is replaced.
OtherChunkList(n) == [p \in 1..n |-> Chunk(p + 2)]

\* Query embeddings as the callers pass them: a flat list of floats
\* (ndim 1) or a nested list / array of rows (ndim 2).
Flat(v) == [ndim |-> 1, data |-> v]
Batch(rs) == [ndim |-> 2, data |-> rs]
Queries ==
    {Flat(<<10, 0>>), Flat(<<7, 7>>), Flat(<<10>>),
     Batch(<< <<10, 0>> >>), Batch(<< <<10, 0, 0>> >>)}

\* The indexes, queries and top_k of the concurrent runs: scenario A, and
\* a two-row index of another document that replaces it.
Replacement == Tensor(2, << <<7, 7>>, <<0, 10>> >>)
ConcLoads == {[e |-> ScenarioA, c |-> ChunkList(3)],
              [e |-> Replacement, c |-> OtherChunkList(2)]}
ConcQueries == {Flat(<<10, 0>>), Flat(<<10>>)}
ConcTopKs == {Some(2), Some(3)}

\* top_k arguments: None (the default argument), zero, negative, positive.
TopKs == {None} \cup {Some(k) : k \in -1..MaxTopK}

\* Values of the TOP_K_RESULTS environment variable (5 when it is unset).
EnvTopKs == {2, DEFAULT_TOP_K_RESULTS}

\* torch.topk does not document the order of equal scores; a build fixes it.
TiePolicies == {"low_index_first", "high_index_first"}

----------------------------------------------------------------------------
(* Python values *)

\* x or y, for x an optional int: None and 0 are both falsy
Or(x, y) == IF IsNone(x) THEN y ELSE IF Val(x) = 0 THEN y ELSE Val(x)

\* d[key] = val on a dict
DictSet(d, key, val) ==
    [x \in DOMAIN d \cup {key} |-> IF x = key THEN val ELSE d[x]]

Min(a, b) == IF a <= b THEN a ELSE b

Ok(docs) == [kind |-> "ok", docs |-> docs]
Raise(kind) == [kind |-> kind, docs |-> <<>>]

----------------------------------------------------------------------------
(* LocalRetriever.search, step by step *)

\* lines 70-77: torch.tensor(query_embedding), unsqueezed to two dimensions
\* when it has one. The value is the list of the query's rows.
QueryRows(q) == IF q.ndim = 1 THEN <<q.data>> ELSE q.data

RECURSIVE Dot(_, _)
Dot(u, v) == IF Len(u) = 0 THEN 0 ELSE Head(u) * Head(v) + Dot(Tail(u), Tail(v))

\* line 90: torch.mm(query_tensor, self.embeddings.T) is defined only when
\* the query's row length equals the embeddings' row length.
MmDefinedOrShorter(qrows, E) == \A r \in 1..Len(qrows) : Len(qrows[r]) <= E.dim
MmDefined(qrows, E) == \A r \in 1..Len(qrows) : Len(qrows[r]) = E.dim

\* lines 90-91: dot_scores[0], the scores of the first query row against
\* every stored row, unnormalised.
DotScoresMean(qrows, E) ==
    [p \in 1..Len(E.rows) |-> Dot(qrows[1], E.rows[p]) \div E.dim]
DotScores(qrows, E) == [p \in 1..Len(E.rows) |-> Dot(qrows[1], E.rows[p])]

\* Whether torch.topk puts position i before position j.
BeforeAscending(scores, policy, i, j) ==
    \/ scores[i] < scores[j]
    \/ /\ scores[i] = scores[j]
       /\ IF policy = "low_index_first" THEN i < j ELSE i > j
Before(scores, policy, i, j) ==
    \/ scores[i] > scores[j]
    \/ /\ scores[i] = scores[j]
       /\ IF policy = "low_index_first" THEN i < j ELSE i > j

\* line 98: torch.topk accepts 0 <= k <= len(input) and raises otherwise.
TopKDefined(scores, k) == 0 <= k /\ k <= Len(scores)

\* line 98: the positions of the k largest scores, largest first.
RECURSIVE TopKFrom(_, _, _, _)
TopKFrom(scores, policy, left, k) ==
    IF k = 0 THEN <<>>
    ELSE LET best == CHOOSE i \in left :
                         \A j \in left \ {i} : Before(scores, policy, i, j)
         IN  <<best>> \o TopKFrom(scores, policy, left \ {best}, k - 1)

TopK(scores, policy, k) == TopKFrom(scores, policy, 1..Len(scores), k)

\* line 103: self.chunks[idx] exists
ChunkDefined(chs, pos) == pos <= Len(chs)

\* lines 103-105: the result built for the row at position pos
MakeDocOneBased(chs, scores, pos) ==
    DictSet(DictSet(chs[pos], "similarity", scores[pos]), "id", pos)
MakeDoc(chs, scores, pos) ==
    DictSet(DictSet(chs[pos], "similarity", scores[pos]), "id", pos - 1)

\* lines 103-105: the stored record after doc['similarity'] and doc['id']
\* are assigned. doc is a copy of the stored record, so the record stays.
StoredAfterAssignAliased(stored, doc) == doc
StoredAfterAssign(stored, doc) == stored

\* lines 101-106: the loop over zip(scores, indices). It stops at the first
\* position that self.chunks does not have (IndexError).
RECURSIVE BuildDocuments(_, _, _, _)
BuildDocuments(chs, scores, idxs, docs) ==
    IF Len(idxs) = 0 THEN [ok |-> TRUE, docs |-> docs, chunks |-> chs]
    ELSE LET pos == Head(idxs)
         IN  IF ~ChunkDefined(chs, pos)
             THEN [ok |-> FALSE, docs |-> <<>>, chunks |-> chs]
             ELSE LET doc == MakeDoc(chs, scores, pos)
                      chs2 == [chs EXCEPT ![pos] = StoredAfterAssign(chs[pos], doc)]
                  IN  BuildDocuments(chs2, scores, Tail(idxs), Append(docs, doc))

\* line 61: the guard of search
NotLoaded(E, C) == IsNone(E) \/ IsNone(C)

\* lines 61-113: the outcome of search on (E, C) and the chunk list it leaves.
SearchOutcome(E, C, q, top_k, dflt, policy) ==
    IF NotLoaded(E, C)
    THEN [res |-> Raise("NotLoaded"), chunks |-> C]
    ELSE LET k == Or(top_k, dflt)
             qrows == QueryRows(q)
         IN  IF ~MmDefined(qrows, Val(E))
             THEN [res |-> Raise("MmShape"), chunks |-> C]
             ELSE LET scores == DotScores(qrows, Val(E))
                  IN  IF ~TopKDefined(scores, k)
                      THEN [res |-> Raise("TopKRange"), chunks |-> C]
                      ELSE LET b == BuildDocuments(Val(C), scores,
                                                   TopK(scores, policy, k), <<>>)
                           IN  IF b.ok
                               THEN [res |-> Ok(b.docs), chunks |-> Some(b.chunks)]
                               ELSE [res |-> Raise("ChunkIndex"),
                                     chunks |-> Some(b.chunks)]

----------------------------------------------------------------------------
(* Operations *)

Called(op, e, c, q, k) == [op |-> op, e |-> e, c |-> c, q |-> q, k |-> k]

Searchers == 1..NumSearchers
IdleLocal == [q |-> None, k |-> None, scores |-> <<>>, idxs |-> <<>>,
              docs |-> <<>>, embVer |-> 0, chunkVers |-> {}]

\* No tool around the application has run.
ToolsIdle ==
    /\ rpc = <<>>
    /\ generation = <<>>
    /\ inserting = <<>>
    /\ chunker = <<>>
    /\ reingest = <<>>
    /\ components = {}
    /\ session = <<>>
    /\ request = <<>>

\* Nothing of the application around the retriever has run.
AppIdle ==
    /\ ToolsIdle
    /\ formatted = [r \in {"local", "supabase"} |-> None]
    /\ documents = <<>>
    /\ remoteCall = None
    /\ masked = None
    /\ touched = {}
    /\ built = None
    /\ run = None
    /\ prev = None

\* LocalRetriever.__init__(embeddings=None, chunks=None), on given arguments
RetrieverInit(Es, Cs) ==
    /\ embeddings \in Es
    /\ chunks \in Cs
    /\ TOP_K_RESULTS \in EnvTopKs
    /\ tiePolicy \in TiePolicies
    /\ call = Called("init", embeddings, chunks, None, None)
    /\ result = Ok(<<>>)
    /\ first = None /\ again = None /\ between = FALSE
    /\ pc = [t \in Searchers |-> "idle"]
    /\ local = [t \in Searchers |-> IdleLocal]
    /\ loader = None
    /\ embVer = 0 /\ chunksVer = 0 /\ nloads = 0

InitWith(Es, Cs) == RetrieverInit(Es, Cs) /\ AppIdle

Init == InitWith({None} \cup {Some(E) : E \in Tensors},
                 {None} \cup {Some(C) : C \in ChunkLists})

\* LocalRetriever.load_embeddings(embeddings, chunks): what it stores
LoadEffectEmbeddingsOnly(E, C) ==
    /\ embeddings' = Some(E)
    /\ chunks' = chunks
LoadEffect(E, C) ==
    /\ embeddings' = Some(E)
    /\ chunks' = Some(C)

LoadEmbeddings(E, C) ==
    /\ LoadEffect(E, C)
    /\ call' = Called("load", Some(E), Some(C), None, None)
    /\ result' = Ok(<<>>)
    /\ UNCHANGED <<TOP_K_RESULTS, tiePolicy>>
    /\ UNCHANGED repeatVars
    /\ UNCHANGED threadVars
    /\ UNCHANGED appVars

\* LocalRetriever.search(query_embedding, top_k): what it leaves in the
\* retriever and in the library it calls
SearchEffectTieFlips(q, top_k) ==
    /\ chunks' = SearchOutcome(embeddings, chunks, q, top_k,
                               TOP_K_RESULTS, tiePolicy).chunks
    /\ tiePolicy' = CHOOSE x \in TiePolicies : x # tiePolicy
    /\ UNCHANGED <<embeddings, TOP_K_RESULTS>>
SearchEffect(q, top_k) ==
    /\ chunks' = SearchOutcome(embeddings, chunks, q, top_k,
                               TOP_K_RESULTS, tiePolicy).chunks
    /\ UNCHANGED <<embeddings, TOP_K_RESULTS, tiePolicy>>

Search(q, top_k) ==
    LET o == SearchOutcome(embeddings, chunks, q, top_k, TOP_K_RESULTS, tiePolicy)
    IN  /\ SearchEffect(q, top_k)
        /\ result' = o.res
        /\ call' = Called("search", None, None, q, top_k)
        /\ UNCHANGED repeatVars
        /\ UNCHANGED threadVars
        /\ UNCHANGED appVars

Next ==
    \/ \E E \in Tensors, C \in ChunkLists : LoadEmbeddings(E, C)
    \/ \E q \in Queries, top_k \in TopKs : Search(q, top_k)

Spec == Init /\ [][Next]_vars

----------------------------------------------------------------------------
(* Repeated searches on one retriever *)

\* search(q, top_k), remembering the first call and every repetition of it
SearchRepeated(q, top_k) ==
    LET o == SearchOutcome(embeddings, chunks, q, top_k, TOP_K_RESULTS, tiePolicy)
    IN  /\ SearchEffect(q, top_k)
        /\ IF IsNone(first)
           THEN /\ first' = Some([q |-> q, k |-> top_k, res |-> o.res])
                /\ UNCHANGED <<again, between>>
           ELSE IF Val(first).q = q /\ Val(first).k = top_k
                THEN /\ again' = Some(o.res)
                     /\ UNCHANGED <<first, between>>
                ELSE /\ between' = TRUE
                     /\ again' = None
                     /\ UNCHANGED first
        /\ UNCHANGED <<call, result>>
        /\ UNCHANGED threadVars
        /\ UNCHANGED appVars

NextRepeat == \E q \in Queries, top_k \in TopKs : SearchRepeated(q, top_k)

SpecRepeat == Init /\ [][NextRepeat]_vars

----------------------------------------------------------------------------
(* Concurrent use: search threads beside a load_embeddings call.  Each     *)
(* step is one read or write of an attribute of the shared retriever.      *)

InitConc == InitWith({None, Some(ScenarioA)}, {None, Some(ChunkList(3))})

\* A search call of thread t ends: it returns or raises res.
Finish(t, res) ==
    /\ result' = res
    /\ call' = Called("search", None, None, local[t].q, local[t].k)
    /\ pc' = [pc EXCEPT ![t] = "idle"]
    /\ local' = [local EXCEPT ![t] = IdleLocal]

\* line 61: the call starts and tests both attributes
StartSearch(t, q, top_k) ==
    /\ pc[t] = "idle"
    /\ IF NotLoaded(embeddings, chunks)
       THEN /\ result' = Raise("NotLoaded")
            /\ call' = Called("search", None, None, q, top_k)
            /\ UNCHANGED <<pc, local>>
       ELSE /\ pc' = [pc EXCEPT ![t] = "checked"]
            /\ local' = [local EXCEPT ![t] = [IdleLocal EXCEPT !.q = q, !.k = top_k]]
            /\ UNCHANGED <<call, result>>
    /\ UNCHANGED <<retrieverVars, repeatVars, loader, embVer, chunksVer, nloads>>
    /\ UNCHANGED appVars

\* lines 64-98: the thread reads self.embeddings, scores and selects
Score(t) ==
    /\ pc[t] = "checked"
    /\ LET k == Or(local[t].k, TOP_K_RESULTS)
           qrows == QueryRows(local[t].q)
           E == Val(embeddings)
       IN  IF ~MmDefined(qrows, E)
           THEN Finish(t, Raise("MmShape"))
           ELSE LET scores == DotScores(qrows, E)
                IN  IF ~TopKDefined(scores, k)
                    THEN Finish(t, Raise("TopKRange"))
                    ELSE /\ local' = [local EXCEPT ![t].scores = scores,
                                                   ![t].idxs = TopK(scores, tiePolicy, k),
                                                   ![t].embVer = embVer]
                         /\ pc' = [pc EXCEPT ![t] = "scored"]
                         /\ UNCHANGED <<call, result>>
    /\ UNCHANGED <<retrieverVars, repeatVars, loader, embVer, chunksVer, nloads>>
    /\ UNCHANGED appVars

\* lines 102-106: one turn of the loop reads self.chunks[idx]
Deref(t) ==
    /\ pc[t] = "scored"
    /\ local[t].idxs # <<>>
    /\ LET pos == Head(local[t].idxs)
           chs == Val(chunks)
       IN  IF ~ChunkDefined(chs, pos)
           THEN /\ Finish(t, Raise("ChunkIndex"))
                /\ UNCHANGED chunks
           ELSE LET doc == MakeDoc(chs, local[t].scores, pos)
                IN  /\ chunks' = Some([chs EXCEPT ![pos] = StoredAfterAssign(chs[pos], doc)])
                    /\ local' = [local EXCEPT ![t].idxs = Tail(@),
                                              ![t].docs = Append(@, doc),
                                              ![t].chunkVers = @ \cup {chunksVer}]
                    /\ UNCHANGED <<pc, call, result>>
    /\ UNCHANGED <<embeddings, TOP_K_RESULTS, tiePolicy, repeatVars,
                   loader, embVer, chunksVer, nloads>>
    /\ UNCHANGED appVars

\* line 109: return documents
Return(t) ==
    /\ pc[t] = "scored"
    /\ local[t].idxs = <<>>
    /\ Finish(t, Ok(local[t].docs))
    /\ UNCHANGED <<retrieverVars, repeatVars, loader, embVer, chunksVer, nloads>>
    /\ UNCHANGED appVars

\* line 40: load_embeddings assigns self.embeddings
StartLoad(E, C) ==
    /\ IsNone(loader)
    /\ nloads < MaxLoads
    /\ embeddings' = Some(E)
    /\ embVer' = nloads + 1
    /\ nloads' = nloads + 1
    /\ loader' = Some([c |-> C, ver |-> nloads + 1])
    /\ UNCHANGED <<chunks, chunksVer, TOP_K_RESULTS, tiePolicy, call, result,
                   repeatVars, pc, local>>
    /\ UNCHANGED appVars

\* line 41: load_embeddings assigns self.chunks
FinishLoad ==
    /\ ~IsNone(loader)
    /\ chunks' = Some(Val(loader).c)
    /\ chunksVer' = Val(loader).ver
    /\ loader' = None
    /\ UNCHANGED <<embeddings, embVer, nloads, TOP_K_RESULTS, tiePolicy, call,
                   result, repeatVars, pc, local>>
    /\ UNCHANGED appVars

NextConc ==
    \/ \E t \in Searchers, q \in ConcQueries, top_k \in ConcTopKs :
           StartSearch(t, q, top_k)
    \/ \E t \in Searchers : Score(t)
    \/ \E t \in Searchers : Deref(t)
    \/ \E t \in Searchers : Return(t)
    \/ \E d \in ConcLoads : StartLoad(d.e, d.c)
    \/ FinishLoad

SpecConc == InitConc /\ [][NextConc]_vars

----------------------------------------------------------------------------
(* Properties of LocalRetriever *)

\* The retriever accepts queries: both attributes are present.
Queryable == ~IsNone(embeddings) /\ ~IsNone(chunks)
NumRows == Len(Val(embeddings).rows)
NumChunks == Len(Val(chunks))
Aligned == NumRows = NumChunks
\* The length of the query vector of the last search.
QueryLen == Len(QueryRows(call.q)[1])
QueryFits == QueryLen = Val(embeddings).dim
Searched == call.op = "search"
Returned == Searched /\ result.kind = "ok"
Ids == {result.docs[i]["id"] : i \in 1..Len(result.docs)}

\* C1: for every top_k >= 1 and every loaded index of N rows, search
\* returns exactly min(top_k, N) results, also when top_k > N.
C1_TopKBound ==
    (/\ Searched /\ Queryable /\ Aligned /\ QueryFits
     /\ ~IsNone(call.k) /\ Val(call.k) >= 1)
    => /\ result.kind = "ok"
       /\ Len(result.docs) = Min(Val(call.k), NumRows)

\* C2: search on a loaded index with top_k < 1 fails with an invalid-top_k
\* error and returns nothing; it never falls back to another result count.
C2_InvalidTopKRejected ==
    (/\ Searched /\ Queryable /\ Aligned /\ QueryFits
     /\ ~IsNone(call.k) /\ Val(call.k) < 1)
    => /\ result.kind = "TopKRange"
       /\ result.docs = <<>>

\* C3: on a loaded index of dimension D, a query of any other length fails
\* at the matrix product and returns nothing; a query of length D, flat or
\* a batch of one, passes it, and is answered when top_k is in range.
C3_DimensionChecked ==
    (Searched /\ Queryable)
    => /\ ~QueryFits => (result.kind = "MmShape" /\ result.docs = <<>>)
       /\ QueryFits => result.kind # "MmShape"
       /\ (/\ QueryFits /\ Aligned /\ ~IsNone(call.k)
           /\ Val(call.k) >= 1 /\ Val(call.k) <= NumRows) => result.kind = "ok"
C3_Witness ==
    /\ Searched /\ Queryable /\ ~QueryFits
    /\ call.q.ndim = 2 /\ Len(call.q.data) = 1
    /\ result.kind = "MmShape"

\* C4: a search while embeddings or chunks are absent raises the not-loaded
\* error and leaves the retriever as it was; the search that follows a
\* load_embeddings of an aligned index, with a query that fits it and a
\* top_k in range, returns results.
C4_NotLoadedThenRecover ==
    [][call'.op = "search" =>
        /\ (IsNone(embeddings) \/ IsNone(chunks))
             => /\ result'.kind = "NotLoaded"
                /\ embeddings' = embeddings
                /\ chunks' = chunks
        /\ (/\ call.op = "load"
            /\ Len(Val(call.e).rows) = Len(Val(call.c))
            /\ Len(QueryRows(call'.q)[1]) = Val(call.e).dim
            /\ ~IsNone(call'.k) /\ Val(call'.k) >= 1
            /\ Val(call'.k) <= Len(Val(call.e).rows))
             => /\ result'.kind = "ok"
                /\ Len(result'.docs) = Val(call'.k)]_vars
C4_Witness ==
    /\ Searched /\ result.kind = "NotLoaded"
    /\ ~IsNone(embeddings) /\ IsNone(chunks)

\* C5: every returned result list is in non-increasing score order.
C5_NonIncreasing ==
    Returned =>
        \A i \in 1..Len(result.docs) - 1 :
            result.docs[i]["similarity"] >= result.docs[i + 1]["similarity"]
C5_Witness ==
    /\ Returned /\ Len(result.docs) = 3
    /\ result.docs[1]["similarity"] > result.docs[2]["similarity"]
    /\ result.docs[2]["similarity"] > result.docs[3]["similarity"]

\* C6: each result's similarity is the raw dot product of the query with
\* the stored row at the result's id, and no row left out scores strictly
\* higher than a returned one; rows [1,0],[0,1],[0.7,0.7] with query [1,0]
\* and top_k = 2 give row 0 (1.0) and then row 2 (0.7).
C6_RawDotProductTopK ==
    Returned =>
        /\ \A i \in 1..Len(result.docs) :
               LET d == result.docs[i]
               IN  /\ d["id"] \in 0..NumRows - 1
                   /\ d["similarity"] =
                          Dot(QueryRows(call.q)[1], Val(embeddings).rows[d["id"] + 1])
                   /\ \A p \in 1..NumRows :
                          (p - 1) \notin Ids =>
                              Dot(QueryRows(call.q)[1], Val(embeddings).rows[p])
                                  <= d["similarity"]
        /\ (Val(embeddings) = ScenarioA /\ call.q = Flat(<<10, 0>>) /\ call.k = Some(2))
              => /\ Len(result.docs) = 2
                 /\ result.docs[1]["id"] = 0 /\ result.docs[1]["similarity"] = 100
                 /\ result.docs[2]["id"] = 2 /\ result.docs[2]["similarity"] = 70
C6_Witness ==
    /\ Returned /\ Val(embeddings) = ScenarioA
    /\ call.q = Flat(<<10, 0>>) /\ call.k = Some(2)
    /\ Len(result.docs) = 2

\* C7: in every reachable state the retriever is either not loaded or holds
\* as many embedding rows as chunks.
C7_LoadedIsAligned == Queryable => Aligned

\* C8: while load_embeddings replaces the index, every search reads chunks
\* written by the same load as the embeddings it scored against.
C8_SearchSeesOneLoad ==
    \A t \in Searchers :
        pc[t] = "scored" => local[t].chunkVers \subseteq {local[t].embVer}

----------------------------------------------------------------------------
(* Text.  A Python str is kept as the sequence of its pieces and "" is the *)
(* empty sequence.  A piece is the text of one passage, the bullet "- ",   *)
(* a newline or a fixed message.  The text of a passage holds no newline:  *)
(* the loader replaces them by spaces (ingestion/loader.py line 28).       *)

Str(s) == IF s = "" THEN <<>> ELSE <<s>>

\* sep.join(items)
RECURSIVE JoinDoubled(_, _)
JoinDoubled(sep, items) ==
    IF Len(items) = 0 THEN <<>>
    ELSE IF Len(items) = 1 THEN items[1]
    ELSE items[1] \o sep \o sep \o JoinDoubled(sep, Tail(items))
RECURSIVE Join(_, _)
Join(sep, items) ==
    IF Len(items) = 0 THEN <<>>
    ELSE IF Len(items) = 1 THEN items[1]
    ELSE items[1] \o sep \o Join(sep, Tail(items))

\* d.get(key, default)
DictGet(d, key, default) == IF key \in DOMAIN d THEN d[key] ELSE default

----------------------------------------------------------------------------
(* format_context of the two retrievers *)

MaxDocs == 3

\* Documents handed to LocalRetriever.format_context: results of its search
\* (a chunk with 'similarity' and 'id'), a record that names its text
\* 'chunk_text', one with an empty text and one with no text at all.
LocalDocs ==
    {DictSet(DictSet(Chunk(0), "similarity", 70), "id", 0),
     [chunk_text |-> "gamma", page_number |-> 12],
     [sentence_chunk |-> "", page_number |-> 13],
     [page_number |-> 14]}

\* Rows of match_documents (retriever.py lines 33-41), as
\* SupabaseRetriever.format_context receives them.
Row(i, sim) == [id |-> i, page_number |-> 10 + i, chunk_text |-> Texts[i + 1],
                similarity |-> sim]
RemoteDocs == {Row(0, 90), Row(1, 70)}

DocLists(D) == UNION {[1..n -> D] : n \in 0..MaxDocs}

\* local_retriever.py line 127: the text of every document
LocalItems(docs) ==
    [i \in 1..Len(docs) |->
        Str(DictGet(docs[i], "sentence_chunk", DictGet(docs[i], "chunk_text", "")))]

\* LocalRetriever.format_context(documents)
LocalFormatContextBlank(docs) ==
    IF Len(docs) = 0 THEN Str("")
    ELSE Str("- ") \o Join(Str("\n") \o Str("- "), LocalItems(docs))
LocalFormatContext(docs) ==
    IF Len(docs) = 0 THEN Str("No relevant context found.")
    ELSE Str("- ") \o Join(Str("\n") \o Str("- "), LocalItems(docs))

\* retriever.py line 116: the text of every row
SupabaseItems(docs) == [i \in 1..Len(docs) |-> Str(docs[i].chunk_text)]

\* SupabaseRetriever.format_context(documents)
SupabaseFormatContextBlank(docs) ==
    IF Len(docs) = 0 THEN Str("")
    ELSE Str("- ") \o Join(Str("\n") \o Str("- "), SupabaseItems(docs))
SupabaseFormatContext(docs) ==
    IF Len(docs) = 0 THEN Str("No relevant context found.")
    ELSE Str("- ") \o Join(Str("\n") \o Str("- "), SupabaseItems(docs))

Retrievers == {"local", "supabase"}
Formatted(docs, context) == [documents |-> docs, context |-> context]

FormatContextLocal(docs) ==
    /\ formatted' = [formatted EXCEPT
                        !["local"] = Some(Formatted(docs, LocalFormatContext(docs)))]
    /\ UNCHANGED <<retrieverVars, callVars, repeatVars, threadVars>>
    /\ UNCHANGED toolVars
    /\ UNCHANGED <<documents, remoteCall, masked, touched, built, run, prev>>

FormatContextSupabase(docs) ==
    /\ formatted' = [formatted EXCEPT
                        !["supabase"] = Some(Formatted(docs, SupabaseFormatContext(docs)))]
    /\ UNCHANGED <<retrieverVars, callVars, repeatVars, threadVars>>
    /\ UNCHANGED toolVars
    /\ UNCHANGED <<documents, remoteCall, masked, touched, built, run, prev>>

InitFormat ==
    /\ InitWith({None}, {None})
    /\ TOP_K_RESULTS = DEFAULT_TOP_K_RESULTS
    /\ tiePolicy = "low_index_first"

NextFormat ==
    \/ \E docs \in DocLists(LocalDocs) : FormatContextLocal(docs)
    \/ \E docs \in DocLists(RemoteDocs) : FormatContextSupabase(docs)

SpecFormat == InitFormat /\ [][NextFormat]_vars

----------------------------------------------------------------------------
(* Properties of format_context *)

\* The lines of a text: its pieces between newlines.
RECURSIVE Lines(_)
Lines(text) ==
    IF \A p \in 1..Len(text) : text[p] # "\n" THEN <<text>>
    ELSE LET p == CHOOSE i \in 1..Len(text) :
                      text[i] = "\n" /\ \A j \in 1..(i - 1) : text[j] # "\n"
         IN  <<SubSeq(text, 1, p - 1)>> \o Lines(SubSeq(text, p + 1, Len(text)))

\* The text content of a document, by the key that holds it.
Content(doc) ==
    IF "sentence_chunk" \in DOMAIN doc THEN doc.sentence_chunk
    ELSE IF "chunk_text" \in DOMAIN doc THEN doc.chunk_text
    ELSE ""

FormattedEmpty(r) == ~IsNone(formatted[r]) /\ Val(formatted[r]).documents = <<>>
FormattedSome(r) == ~IsNone(formatted[r]) /\ Val(formatted[r]).documents # <<>>

\* C11: format_context of LocalRetriever and of SupabaseRetriever, given an
\* empty result sequence, returns the sentinel "No relevant context found."
\* and never the empty string.
C11_EmptySentinel ==
    \A r \in Retrievers :
        FormattedEmpty(r) =>
            /\ Val(formatted[r]).context = <<"No relevant context found.">>
            /\ Val(formatted[r]).context # <<>>

\* Both retrievers have formatted an empty result sequence.
C11_Witness == \A r \in Retrievers : FormattedEmpty(r)

\* C13: for a non-empty result sequence format_context returns one line per
\* result, in the given order, each the bullet "- " followed by the result's
\* text, the lines joined by single newlines; so there are as many bullet
\* items as results.
C13_BulletPerResult ==
    \A r \in Retrievers :
        FormattedSome(r) =>
            LET docs == Val(formatted[r]).documents
                lines == Lines(Val(formatted[r]).context)
            IN  /\ Len(lines) = Len(docs)
                /\ \A i \in 1..Len(docs) :
                       lines[i] = <<"- ">> \o Str(Content(docs[i]))

\* Both retrievers have formatted three results, not all of the same text.
C13_Witness ==
    \A r \in Retrievers :
        /\ FormattedSome(r)
        /\ Len(Val(formatted[r]).documents) = 3
        /\ Content(Val(formatted[r]).documents[1]) #
               Content(Val(formatted[r]).documents[3])

----------------------------------------------------------------------------
(* SupabaseRetriever.search and the match_documents function it calls.     *)
(* A stored row carries its distance to the query, as the <=> operator of  *)
(* the vector extension computes it, scaled by 100: 30 stands for 0.3.     *)

DEFAULT_SIMILARITY_THRESHOLD == 50

\* Distances of a stored row to the query: similarity 1.0, 0.7, just the
\* default threshold 0.5, and a negative similarity.
Dists == {0, 30, 50, 120}
Stored(i, dist) == [id |-> i, page_number |-> 10 + i, chunk_text |-> Texts[i + 1],
                    dist |-> dist]
Tables ==
    UNION {{[p \in 1..n |-> Stored(p - 1, ds[p])] : ds \in [1..n -> Dists]} :
              n \in 0..MaxN}

\* similarity_threshold arguments: the default and a stricter one
Thresholds == {DEFAULT_SIMILARITY_THRESHOLD, 80}

\* retriever.py line 51: 1 - (embedding <=> query_embedding)
Similarity(row) == 100 - row.dist

\* line 53: the WHERE clause, on positions of the table
PassingOrEqual(table, thr) == {p \in 1..Len(table) : Similarity(table[p]) >= thr}
Passing(table, thr) == {p \in 1..Len(table) : Similarity(table[p]) > thr}

\* lines 54-55: ORDER BY distance LIMIT n, on the positions S. Rows of equal
\* distance come in any order, and any of them may be the ones cut off.
Orders(table, S, n) ==
    {o \in [1..n -> S] :
        /\ \A i, j \in 1..n : i < j =>
               o[i] # o[j] /\ table[o[i]].dist <= table[o[j]].dist
        /\ \A p \in S : (\A i \in 1..n : o[i] # p) =>
               \A i \in 1..n : table[o[i]].dist <= table[p].dist}

\* lines 44-51: the columns of a returned row
Select(row) == [id |-> row.id, page_number |-> row.page_number,
                chunk_text |-> row.chunk_text, similarity |-> Similarity(row)]

\* lines 28-56: the tables match_documents can return. A negative
\* match_count is an error of the database.
MatchDocuments(table, thr, count) ==
    LET S == Passing(table, thr)
    IN  {[p \in 1..Len(o) |-> Select(table[o[p]])] :
            o \in Orders(table, S, Min(count, Cardinality(S)))}

\* lines 85-92: what rpc(...).execute() does: it raises (the transport
\* fails, the response cannot be parsed, the database reports an error), or
\* it returns a response whose data is the rows, or is absent.
Raised(e) == [raised |-> TRUE, error |-> e, data |-> None]
Response(data) == [raised |-> FALSE, error |-> "", data |-> data]
Execute(table, thr, count) ==
    {Raised("transport"), Raised("malformed"), Response(None)} \cup
    (IF count < 0 THEN {Raised("database")}
     ELSE {Response(Some(rows)) : rows \in MatchDocuments(table, thr, count)})

\* lines 84-101: what search returns or raises after execute()
SearchReturnSwallowing(exec) ==
    IF exec.raised \/ IsNone(exec.data) THEN Ok(<<>>) ELSE Ok(Val(exec.data))
SearchReturnEmptyRaises(exec) ==
    IF exec.raised THEN Raise(exec.error)
    ELSE IF IsNone(exec.data) THEN Raise("TypeError")
    ELSE IF Val(exec.data) = <<>> THEN Raise("NoMatches")
    ELSE Ok(Val(exec.data))
SearchReturn(exec) ==
    IF exec.raised THEN Raise(exec.error)
    ELSE IF IsNone(exec.data) THEN Raise("TypeError")
    ELSE Ok(Val(exec.data))

\* SupabaseRetriever.search(query_embedding, top_k, similarity_threshold)
SupabaseSearch(top_k, thr) ==
    /\ \E exec \in Execute(documents, thr, Or(top_k, TOP_K_RESULTS)) :
           remoteCall' = Some([k |-> top_k, threshold |-> thr, exec |-> exec,
                               res |-> SearchReturn(exec)])
    /\ UNCHANGED <<retrieverVars, callVars, repeatVars, threadVars>>
    /\ UNCHANGED toolVars
    /\ UNCHANGED <<formatted, documents, masked, touched, built, run, prev>>

\* SupabaseRetriever.__init__ against a documents table
InitRemote ==
    /\ RetrieverInit({None}, {None})
    /\ ToolsIdle
    /\ tiePolicy = "low_index_first"
    /\ documents \in Tables
    /\ formatted = [r \in Retrievers |-> None]
    /\ remoteCall = None
    /\ masked = None
    /\ touched = {}
    /\ built = None
    /\ run = None
    /\ prev = None

NextRemote == \E top_k \in TopKs, thr \in Thresholds : SupabaseSearch(top_k, thr)

SpecRemote == InitRemote /\ [][NextRemote]_vars

----------------------------------------------------------------------------
(* Properties of SupabaseRetriever.search *)

RemoteReturned == ~IsNone(remoteCall) /\ Val(remoteCall).res.kind = "ok"
RemoteRaised == ~IsNone(remoteCall) /\ Val(remoteCall).res.kind # "ok"

\* The distance of the stored row that a returned row was made from.
DistanceOf(doc) ==
    LET p == CHOOSE q \in 1..Len(documents) : documents[q].id = doc.id
    IN  documents[p].dist

C17_FailureRaises ==
    ~IsNone(remoteCall) =>
        LET c == Val(remoteCall)
        IN  /\ (c.exec.raised \/ IsNone(c.exec.data)) =>
                   c.res.kind # "ok" /\ c.res.docs = <<>>
            /\ (c.res.kind = "ok" /\ c.res.docs = <<>>) =>
                   ~c.exec.raised /\ c.exec.data = Some(<<>>)

\* The transport failed under a search, and search raised.
C17_Witness ==
    /\ RemoteRaised
    /\ Val(remoteCall).exec.raised
    /\ Val(remoteCall).exec.error = "transport"

----------------------------------------------------------------------------
(* embed_chunks of the three embedders and count_documents of the vector   *)
(* store.  The model or service under each call is outside the program:    *)
(* which of its calls fail is an input.                                    *)

Returns(v) == [kind |-> "ok", value |-> v]
Raises(e) == [kind |-> e, value |-> None]

\* The chunks handed to embed_chunks: the first n texts.
ChunkTexts(n) == [p \in 1..n |-> Texts[p]]
\* The embedding the model gives the text at position p; never all zero.
Encode(p) == <<10, p>>
\* np.zeros(self.embedding_dimension), gemini_embedder.py line 85
ZeroVector == <<0, 0>>
BatchSizes == {1, 2}

\* range(0, total, batch_size): the first position of every batch
BatchStarts(total, batch_size) ==
    {p \in 1..total : (p - 1) % batch_size = 0}
BatchOf(start, total, batch_size) == start..Min(start + batch_size - 1, total)

\* LocalEmbedder.embed_chunks, lines 68-88: one encode call over all chunks
LocalEmbedChunks(n, batch_size, failing) ==
    IF failing # {} THEN Raises("encode")
    ELSE Returns([p \in 1..n |-> Encode(p)])

\* OpenAIEmbedder.embed_chunks, lines 56-77: one request per batch; the
\* first failing request is re-raised
OpenAIEmbedChunks(n, batch_size, failing) ==
    IF \E b \in BatchStarts(n, batch_size) :
           BatchOf(b, n, batch_size) \cap failing # {}
    THEN Raises("request")
    ELSE Returns([p \in 1..n |-> Encode(p)])

\* GeminiEmbedder.embed_chunks, lines 71-88: one embed_text call per chunk;
\* a failing call is logged and a zero vector appended in its place
GeminiEmbedChunks(n, batch_size, failing) ==
    Returns([p \in 1..n |-> IF p \in failing THEN ZeroVector ELSE Encode(p)])

\* SupabaseVectorStore.count_documents, lines 112-119: the count of the
\* response, or 0 when the request raised
CountDocuments(exec) ==
    IF exec.raised THEN Returns(0) ELSE Returns(Val(exec.data))

Masked(op, n, batch_size, failing, res) ==
    [op |-> op, n |-> n, batch_size |-> batch_size, failing |-> failing,
     res |-> res]

EmbedChunksLocal(n, batch_size, failing) ==
    /\ masked' = Some(Masked("LocalEmbedder.embed_chunks", n, batch_size, failing,
                             LocalEmbedChunks(n, batch_size, failing)))
    /\ UNCHANGED <<retrieverVars, callVars, repeatVars, threadVars>>
    /\ UNCHANGED toolVars
    /\ UNCHANGED <<formatted, documents, remoteCall, touched, built, run, prev>>

EmbedChunksOpenAI(n, batch_size, failing) ==
    /\ masked' = Some(Masked("OpenAIEmbedder.embed_chunks", n, batch_size, failing,
                             OpenAIEmbedChunks(n, batch_size, failing)))
    /\ UNCHANGED <<retrieverVars, callVars, repeatVars, threadVars>>
    /\ UNCHANGED toolVars
    /\ UNCHANGED <<formatted, documents, remoteCall, touched, built, run, prev>>

EmbedChunksGemini(n, batch_size, failing) ==
    /\ masked' = Some(Masked("GeminiEmbedder.embed_chunks", n, batch_size, failing,
                             GeminiEmbedChunks(n, batch_size, failing)))
    /\ UNCHANGED <<retrieverVars, callVars, repeatVars, threadVars>>
    /\ UNCHANGED toolVars
    /\ UNCHANGED <<formatted, documents, remoteCall, touched, built, run, prev>>

CountDocumentsCalled(exec) ==
    /\ masked' = Some(Masked("SupabaseVectorStore.count_documents", 0, 0,
                             IF exec.raised THEN {0} ELSE {},
                             CountDocuments(exec)))
    /\ UNCHANGED <<retrieverVars, callVars, repeatVars, threadVars>>
    /\ UNCHANGED toolVars
    /\ UNCHANGED <<formatted, documents, remoteCall, touched, built, run, prev>>

InitMask == InitWith({None}, {None})

NextMask ==
    \/ \E n \in 0..MaxN, b \in BatchSizes :
           \E f \in SUBSET (1..n) : EmbedChunksLocal(n, b, f)
    \/ \E n \in 0..MaxN, b \in BatchSizes :
           \E f \in SUBSET (1..n) : EmbedChunksOpenAI(n, b, f)
    \/ \E n \in 0..MaxN, b \in BatchSizes :
           \E f \in SUBSET (1..n) : EmbedChunksGemini(n, b, f)
    \/ \E exec \in {Raised("transport")} \cup {Response(Some(c)) : c \in 0..MaxN} :
           CountDocumentsCalled(exec)

SpecMask == InitMask /\ [][NextMask]_vars

\* C18: no embedding or index operation masks a failure with a zero or
\* empty value: when a call under embed_chunks or count_documents failed,
\* the operation raises; it does not return a list with a zero vector in
\* the failing position, nor the count 0.
C18_NoMasking ==
    (~IsNone(masked) /\ Val(masked).failing # {}) =>
        Val(masked).res.kind # "ok"

----------------------------------------------------------------------------
(* Construction: the factories and RAGPipeline.__init__.  The environment  *)
(* (settings, the snapshot file) is an input of every construction, and    *)
(* touched collects what the construction loaded or created on its way.    *)

\* x or y, for x an optional str: None and "" are both falsy
OrStr(x, y) == IF IsNone(x) \/ Val(x) = "" THEN y ELSE Val(x)

RetrieverModes == {"local", "supabase", "faiss"}
ModeArguments == {None} \cup {Some(m) : m \in RetrieverModes}
ModelBackends == {"local", "api", "gemini", "onnx"}

Construction(res, t) == [res |-> res, touched |-> t]

\* a, and b after it unless a raised
Then(a, b) ==
    IF a.res.kind # "ok" THEN a
    ELSE Construction(b.res, a.touched \cup b.touched)

\* rag_pipeline.py lines 34-44: the snapshot is read when the mode is local
\* and embeddings or chunks are not handed in
LoadSnapshot(mode, preloaded, csv_exists) ==
    IF mode = "local" /\ ~preloaded
    THEN IF ~csv_exists THEN Construction(Raises("FileNotFoundError"), {})
         ELSE Construction(Returns("snapshot"), {"snapshot_file"})
    ELSE Construction(Returns("preloaded"), {})

\* embeddings/factory.py lines 16-32 with the constructors it calls:
\* SentenceTransformer(...) loads the model, OpenAI(...) creates a client,
\* GeminiEmbedder needs GEMINI_API_KEY and configures the API.
GetEmbedder(backend, has_key) ==
    IF backend = "local"
    THEN Construction(Returns("LocalEmbedder"), {"embedding_model"})
    ELSE IF backend = "api"
    THEN Construction(Returns("OpenAIEmbedder"), {"remote_client"})
    ELSE IF backend = "gemini"
    THEN IF has_key THEN Construction(Returns("GeminiEmbedder"), {"api_configured"})
         ELSE Construction(Raises("MissingApiKey"), {})
    ELSE Construction(Raises("InvalidModelBackend"), {})

\* retriever/factory.py lines 22-31: LocalRetriever keeps what it is given,
\* SupabaseRetriever creates the client
GetRetrieverOutcome(mode) ==
    IF mode = "local" THEN Construction(Returns("LocalRetriever"), {})
    ELSE IF mode = "supabase"
    THEN Construction(Returns("SupabaseRetriever"), {"remote_client"})
    ELSE Construction(Raises("InvalidRetrieverMode"), {})

\* llm/factory.py lines 49-65 with the constructors it calls
GetGenerator(backend, has_key) ==
    IF backend = "local"
    THEN Construction(Returns("LocalLLMGenerator"), {"generation_model"})
    ELSE IF backend = "api"
    THEN Construction(Returns("OpenAIGenerator"), {"remote_client"})
    ELSE IF backend = "gemini"
    THEN IF has_key THEN Construction(Returns("GeminiGenerator"), {"remote_client"})
         ELSE Construction(Raises("MissingApiKey"), {})
    ELSE Construction(Raises("InvalidModelBackend"), {})

\* rag_pipeline.py lines 29-48, in the order of the statements
PipelineConstruction(mode, backend, has_key, preloaded, csv_exists) ==
    Then(Then(Then(LoadSnapshot(mode, preloaded, csv_exists),
                   GetEmbedder(backend, has_key)),
              GetRetrieverOutcome(mode)),
         GetGenerator(backend, has_key))

Built(op, mode, backend, preloaded, res) ==
    [op |-> op, mode |-> mode, backend |-> backend, preloaded |-> preloaded,
     res |-> res]

\* get_retriever(mode=...)
GetRetriever(mode) ==
    LET c == GetRetrieverOutcome(mode)
    IN  /\ built' = Some(Built("get_retriever", mode, "", TRUE, c.res))
        /\ touched' = c.touched
        /\ UNCHANGED <<retrieverVars, callVars, repeatVars, threadVars>>
        /\ UNCHANGED toolVars
        /\ UNCHANGED <<formatted, documents, remoteCall, masked, run, prev>>

\* RAGPipeline(retriever_mode=...) under settings.RETRIEVER_MODE and
\* settings.MODEL_BACKEND
PipelineInit(retriever_mode, RETRIEVER_MODE, MODEL_BACKEND, has_key, preloaded, csv_exists) ==
    LET mode == OrStr(retriever_mode, RETRIEVER_MODE)
        c == PipelineConstruction(mode, MODEL_BACKEND, has_key, preloaded,
                                  csv_exists)
    IN  /\ built' = Some(Built("RAGPipeline.__init__", mode, MODEL_BACKEND,
                              preloaded, c.res))
        /\ touched' = c.touched
        /\ UNCHANGED <<retrieverVars, callVars, repeatVars, threadVars>>
        /\ UNCHANGED toolVars
        /\ UNCHANGED <<formatted, documents, remoteCall, masked, run, prev>>

InitBuild == InitWith({None}, {None})

NextBuild ==
    \/ \E mode \in RetrieverModes : GetRetriever(mode)
    \/ \E arg \in ModeArguments, m \in RetrieverModes, b \in ModelBackends,
          has_key \in BOOLEAN, preloaded \in BOOLEAN, csv_exists \in BOOLEAN :
           PipelineInit(arg, m, b, has_key, preloaded, csv_exists)

SpecBuild == InitBuild /\ [][NextBuild]_vars

\* What must not be touched before an invalid mode is reported.
Resources == {"embedding_model", "generation_model", "snapshot_file",
              "remote_client"}
InvalidConfiguration ==
    {"InvalidRetrieverMode", "InvalidModelBackend", "MissingApiKey"}

\* C14: constructing with a mode other than "local" and "supabase" fails
\* with an invalid-configuration error, and when it fails no embedding
\* model, generation model, snapshot file or remote client has been loaded
\* or created; for get_retriever and for RAGPipeline.__init__.
C14_InvalidModeFailsFast ==
    (~IsNone(built) /\ Val(built).mode \notin {"local", "supabase"}) =>
        /\ Val(built).res.kind \in InvalidConfiguration
        /\ touched \cap Resources = {}

----------------------------------------------------------------------------
(* End-to-end queries: RAGPipeline.query and the /api/query handler of the *)
(* API server.  The embedder and the generator are outside the program:    *)
(* what each of their calls returns or raises is an input of the query.    *)

API_TOP_K == 5

\* Exceptions of the libraries under the embedder and the generator; both
\* sit on the same library (torch, or one API client), so the same ones.
ServiceErrors == {"ConnectionError", "OutOfMemoryError"}

\* Questions, as pieces: empty, blank, and two with words.
Questions == {<<>>, <<" ">>, <<"what">>, <<" ", "iron", " ">>}

\* str.strip(), api_server.py line 134
RECURSIVE StripLeft(_)
StripLeft(text) ==
    IF text # <<>> /\ Head(text) = " " THEN StripLeft(Tail(text)) ELSE text
RECURSIVE StripRight(_)
StripRight(text) ==
    IF text # <<>> /\ text[Len(text)] = " "
    THEN StripRight(SubSeq(text, 1, Len(text) - 1)) ELSE text
Strip(text) == StripRight(StripLeft(text))

\* What the embedder gives for the question: a vector of the index's
\* dimension, one of another dimension, or an exception.
EmbedOutcomes ==
    {Returns(<<10, 0>>), Returns(<<10>>)} \cup {Raises(e) : e \in ServiceErrors}
\* What the generator gives for the prompt.
GenerateOutcomes == {Returns("answer")} \cup {Raises(e) : e \in ServiceErrors}

\* The indexes a pipeline or the server has loaded from the snapshot: rows
\* and chunks of one data frame, fewer and more than API_TOP_K of them.
IndexSizes == {2, 6}
SnapshotRows(n) == Tensor(2, Window(Rows2, 1, 1, n))
\* The remote tables a query meets: empty, nothing above the threshold, and
\* two rows above it.
QueryTables ==
    {<<>>, <<Stored(0, 50), Stored(1, 120)>>,
     <<Stored(0, 30), Stored(1, 0), Stored(2, 50)>>}

\* One stage is invoked: it is appended to the stages of the query.
InvokeTwice(stages, stage) == Append(Append(stages, stage), stage)
Invoke(stages, stage) == Append(stages, stage)

QueryRun(entry, stages, failed, docs, handed, res) ==
    [entry |-> entry, stages |-> stages, failed |-> failed, documents |-> docs,
     handed |-> handed, res |-> res, remote |-> None]

\* rag_pipeline.py lines 75-78: self.retriever.search(query_embedding, top_k)
\* of the retriever the pipeline was built with
Retrieve(mode, vec, top_k, exec) ==
    IF mode = "local"
    THEN SearchOutcome(embeddings, chunks, Flat(vec), top_k, TOP_K_RESULTS,
                       tiePolicy).res
    ELSE SearchReturn(exec)

\* line 81: self.retriever.format_context(documents)
FormatContext(mode, docs) ==
    IF mode = "local" THEN LocalFormatContext(docs) ELSE SupabaseFormatContext(docs)

\* lines 91-98: the value returned
QueryValue(return_context, answer, docs, context) ==
    IF return_context
    THEN [answer |-> answer, context |-> docs, context_text |-> context]
    ELSE [answer |-> answer]

\* RAGPipeline.query, lines 69-98. No statement is inside a try: the
\* exception of a stage leaves query as it was raised.
PipelineQueryRun(mode, question, top_k, return_context, emb, exec, gen) ==
    LET entry == "RAGPipeline.query"
        s1 == Invoke(<<>>, "embed")
    IN  IF emb.kind # "ok"
        THEN QueryRun(entry, s1, Some("embed"), None, <<>>, Raises(emb.kind))
        ELSE
    LET s2 == Invoke(s1, "retrieve")
        r == Retrieve(mode, emb.value, top_k, exec)
    IN  IF r.kind # "ok"
        THEN QueryRun(entry, s2, Some("retrieve"), None, <<>>, Raises(r.kind))
        ELSE
    LET s3 == Invoke(s2, "format")
        context == FormatContext(mode, r.docs)
        s4 == Invoke(s3, "generate")
    IN  IF gen.kind # "ok"
        THEN QueryRun(entry, s4, Some("generate"), Some(r.docs), <<context>>,
                      Raises(gen.kind))
        ELSE QueryRun(entry, s4, None, Some(r.docs), <<context>>,
                      Returns(QueryValue(return_context, gen.value, r.docs,
                                         context)))

\* api_server.py lines 135 and 196: the HTTPException the handler raises
HTTPException(status, detail) ==
    [kind |-> "HTTPException", value |-> [status |-> status, detail |-> detail]]
QueryFailed(e) == HTTPException(500, <<"Query processing failed: ", e>>)

\* lines 156-162: the response form of one result
RetrievedChunk(doc) ==
    [content |-> Str(DictGet(doc, "sentence_chunk", "")),
     page |-> DictGet(doc, "page_number", 0)]

\* lines 167-169: the context built from the retrieved chunks
ApiContext(docs) ==
    Join(Str("\n\n---\n\n"), [i \in 1..Len(docs) |-> RetrievedChunk(docs[i]).content])

\* lines 182-192: the response
QueryResponse(answer, docs) ==
    [answer |-> answer,
     sources |-> [i \in 1..Len(docs) |-> RetrievedChunk(docs[i]).page]]

\* api_server.py lines 51-53 and 99-105: the singletons, in the order in
\* which startup creates them
ServerComponents == {"embedder", "retriever", "llm_generator"}
ComponentStates ==
    {{}, {"embedder"}, {"embedder", "retriever"}, ServerComponents}

\* line 134: not request.question or request.question.strip() == ""
BlankOnlyEmpty(question) == question = <<>>
Blank(question) == question = <<>> \/ Strip(question) = <<>>

\* line 142: embedder is None or retriever is None or llm_generator is None
UninitialisedEmbedder(cs) == "embedder" \notin cs
Uninitialised(cs) == cs # ServerComponents

\* The /api/query handler, lines 134-196, on the components that startup
\* has created.
ApiQueryRun(question, emb, gen) ==
    LET entry == "/api/query"
    IN  IF Blank(question)
        THEN QueryRun(entry, <<>>, None, None, <<>>,
                      HTTPException(400, <<"Question is required">>))
        ELSE
        IF Uninitialised(components)
        THEN QueryRun(entry, <<>>, None, None, <<>>,
                      QueryFailed("RAG components not initialized"))
        ELSE
    LET s1 == Invoke(<<>>, "embed")
    IN  IF emb.kind # "ok"
        THEN QueryRun(entry, s1, Some("embed"), None, <<>>, QueryFailed(emb.kind))
        ELSE
    LET s2 == Invoke(s1, "retrieve")
        r == SearchOutcome(embeddings, chunks, Flat(emb.value), Some(API_TOP_K),
                           TOP_K_RESULTS, tiePolicy).res
    IN  IF r.kind # "ok"
        THEN QueryRun(entry, s2, Some("retrieve"), None, <<>>, QueryFailed(r.kind))
        ELSE
    LET s3 == Invoke(s2, "format")
        context == ApiContext(r.docs)
        s4 == Invoke(s3, "generate")
    IN  IF gen.kind # "ok"
        THEN QueryRun(entry, s4, Some("generate"), Some(r.docs), <<context>>,
                      QueryFailed(gen.kind))
        ELSE QueryRun(entry, s4, None, Some(r.docs), <<context>>,
                      Returns(QueryResponse(gen.value, r.docs)))

\* The failed query that is remembered when the next one is made.
Remembered(r) ==
    IF ~IsNone(r) /\ ~IsNone(Val(r).failed)
    THEN Some([entry |-> Val(r).entry, failed |-> Val(r).failed, res |-> Val(r).res])
    ELSE prev

\* The remote calls a query of the pipeline can meet: those of
\* SupabaseRetriever.search with the default threshold; none in local mode.
Executions(mode, top_k) ==
    IF mode = "local" THEN {Response(None)}
    ELSE Execute(documents, DEFAULT_SIMILARITY_THRESHOLD, Or(top_k, TOP_K_RESULTS))

\* History: the remote call that the retrieve stage of a query made.
WithRemote(r, mode, exec) ==
    IF mode = "supabase" /\ Len(r.stages) >= 2
    THEN [r EXCEPT !.remote = Some(exec)] ELSE r

\* pipeline.query(question, top_k, return_context)
PipelineQuery(question, top_k, return_context, emb, gen) ==
    /\ ~IsNone(built)
    /\ \E exec \in Executions(Val(built).mode, top_k) :
           run' = Some(WithRemote(PipelineQueryRun(Val(built).mode, question, top_k,
                                                   return_context, emb, exec, gen),
                                  Val(built).mode, exec))
    /\ prev' = Remembered(run)
    /\ UNCHANGED <<retrieverVars, callVars, repeatVars, threadVars>>
    /\ UNCHANGED toolVars
    /\ UNCHANGED <<formatted, documents, remoteCall, masked, touched, built>>

\* POST /api/query
ApiQuery(question, emb, gen) ==
    /\ request' = Some([question |-> question])
    /\ run' = Some(ApiQueryRun(question, emb, gen))
    /\ prev' = Remembered(run)
    /\ UNCHANGED <<retrieverVars, callVars, repeatVars, threadVars>>
    /\ UNCHANGED <<rpc, generation, inserting, chunker, reingest, components, session>>
    /\ UNCHANGED <<formatted, documents, remoteCall, masked, touched, built>>

\* A pipeline constructed in local mode on a snapshot, which the server
\* has loaded as well, or in supabase mode against a documents table.
InitQuery ==
    /\ tiePolicy = "low_index_first"
    /\ rpc = <<>>
    /\ generation = <<>>
    /\ inserting = <<>>
    /\ chunker = <<>>
    /\ reingest = <<>>
    /\ session = <<>>
    /\ request = <<>>
    /\ formatted = [r \in Retrievers |-> None]
    /\ remoteCall = None
    /\ masked = None
    /\ touched = {}
    /\ run = None
    /\ prev = None
    /\ \/ /\ \E n \in IndexSizes :
                RetrieverInit({Some(SnapshotRows(n))}, {Some(ChunkList(n))})
          /\ documents = <<>>
          /\ components = ServerComponents
          /\ built = Some(Built("RAGPipeline.__init__", "local", "local", FALSE,
                                Returns("RAGPipeline")))
       \/ /\ RetrieverInit({None}, {None})
          /\ documents \in QueryTables
          /\ components = {}
          /\ built = Some(Built("RAGPipeline.__init__", "supabase", "api", FALSE,
                                Returns("RAGPipeline")))

NextQuery ==
    \/ \E question \in {<<>>, <<"what">>}, top_k \in {None, Some(2)},
          return_context \in BOOLEAN, emb \in EmbedOutcomes,
          gen \in GenerateOutcomes :
           PipelineQuery(question, top_k, return_context, emb, gen)
    \/ \E question \in Questions, emb \in EmbedOutcomes, gen \in GenerateOutcomes :
           ApiQuery(question, emb, gen)

SpecQuery == InitQuery /\ [][NextQuery]_vars

----------------------------------------------------------------------------
(* Properties of the end-to-end queries *)

Stages == <<"embed", "retrieve", "format", "generate">>
Queried(entry) == ~IsNone(run) /\ Val(run).entry = entry
Generated == ~IsNone(run) /\ Val(run).handed # <<>>

\* C12: in RAGPipeline.query and in the /api/query handler the context
\* handed to the generator is never the empty string: whenever generation
\* is invoked the context is the sentinel or renders at least one passage.
C12_ContextNeverEmpty ==
    ~IsNone(run) =>
        /\ Val(run).handed # <<>> <=>
               \E i \in 1..Len(Val(run).stages) : Val(run).stages[i] = "generate"
        /\ \A i \in 1..Len(Val(run).handed) :
               /\ Val(run).handed[i] # <<>>
               /\ \/ Val(run).handed[i] = <<"No relevant context found.">>
                  \/ Val(Val(run).documents) # <<>>

\* The handler of /api/query has invoked the generator.
C12_Witness == Queried("/api/query") /\ Generated

\* The remote procedure of the last query succeeded with zero rows.
ZeroRows == ~IsNone(run) /\ Val(run).remote = Some(Response(Some(<<>>)))

\* C16: when the remote procedure succeeds with zero rows, search returns
\* an empty list without raising and RAGPipeline.query goes on: it hands
\* the sentinel context to the generator and returns the answer with an
\* empty source list.
C16_ZeroRowsIsValid ==
    ZeroRows =>
        /\ Val(run).documents = Some(<<>>)
        /\ Val(run).failed # Some("retrieve")
        /\ Val(run).stages = Stages
        /\ Val(run).handed = << <<"No relevant context found.">> >>
        /\ IsNone(Val(run).failed) =>
               /\ Val(run).res.kind = "ok"
               /\ Val(run).res.value.answer = "answer"
               /\ "context" \in DOMAIN Val(run).res.value =>
                      Val(run).res.value.context = <<>>

\* A query with return_context met zero rows and returned its answer.
C16_Witness ==
    /\ ZeroRows
    /\ Val(run).res.kind = "ok"
    /\ "context" \in DOMAIN Val(run).res.value

\* C19: RAGPipeline.query invokes embed, retrieve, format, generate in this
\* order, each at most once; no stage is invoked after a stage that failed;
\* an answer is returned only after all four.
C19_StageOrder ==
    Queried("RAGPipeline.query") =>
        LET r == Val(run)
        IN  /\ Len(r.stages) <= Len(Stages)
            /\ \A i \in 1..Len(r.stages) : r.stages[i] = Stages[i]
            /\ ~IsNone(r.failed) =>
                   r.stages # <<>> /\ r.stages[Len(r.stages)] = Val(r.failed)
            /\ r.res.kind = "ok" => r.stages = Stages /\ IsNone(r.failed)
            /\ r.res.kind # "ok" => ~IsNone(r.failed)

\* A query of the pipeline failed in retrieval, after embed and retrieve.
C19_Witness ==
    /\ Queried("RAGPipeline.query")
    /\ Val(run).failed = Some("retrieve")
    /\ Val(run).stages = <<"embed", "retrieve">>

\* C20: a failing end-to-end query reports the stage that failed: two
\* queries through the same entry that failed in different stages give
\* outcomes the caller can tell apart.
C20_StageReported ==
    (/\ ~IsNone(prev) /\ ~IsNone(run) /\ ~IsNone(Val(run).failed)
     /\ Val(prev).entry = Val(run).entry
     /\ Val(prev).failed # Val(run).failed)
    => Val(prev).res # Val(run).res

-----------------------------------------------------------------------------
(* SupabaseRetriever.search step by step: the request it sends and the     *)
(* wait for the remote store (app/retriever/retriever.py)                  *)

\* lines 16-19: create_client(url, key) is given no options, and lines
\* 85-92 give rpc(...).execute() none: the retriever sets no request timeout.
ClientTimeout == None

\* lines 85-92: the one request of a search call
RpcRequest(top_k, thr) ==
    [fn |-> "match_documents", match_threshold |-> thr,
     match_count |-> Or(top_k, TOP_K_RESULTS), timeout |-> ClientTimeout]

\* lines 99-101: the handler logs and re-raises; it sends nothing
AfterFailureRetry(sent) == sent \o sent
AfterFailure(sent) == sent

RpcPending == ~IsNone(rpc) /\ Val(rpc).phase = "pending"
RpcDone == ~IsNone(rpc) /\ Val(rpc).phase = "done"

\* lines 80-92: search sends the request and waits in execute()
RpcStart(top_k, thr) ==
    /\ ~RpcPending
    /\ rpc' = Some([k |-> top_k, threshold |-> thr, phase |-> "pending",
                    sent |-> <<RpcRequest(top_k, thr)>>,
                    exec |-> None, res |-> None])
    /\ UNCHANGED <<retrieverVars, callVars, repeatVars, threadVars>>
    /\ UNCHANGED <<formatted, documents, remoteCall, masked, touched, built, run, prev>>
    /\ UNCHANGED <<generation, inserting, chunker, reingest, components, session, request>>

\* What execute() can come back with for the pending request.
PendingExecutions ==
    IF RpcPending
    THEN Execute(documents, Val(rpc).threshold, Val(rpc).sent[1].match_count)
    ELSE {}

\* lines 92-101: execute() comes back; search returns the rows or raises
RpcEnd(exec) ==
    /\ RpcPending
    /\ LET res == SearchReturn(exec)
       IN  rpc' = Some([Val(rpc) EXCEPT
                           !.phase = "done",
                           !.sent = IF res.kind = "ok" THEN @ ELSE AfterFailure(@),
                           !.exec = Some(exec),
                           !.res = Some(res)])
    /\ UNCHANGED <<retrieverVars, callVars, repeatVars, threadVars>>
    /\ UNCHANGED <<formatted, documents, remoteCall, masked, touched, built, run, prev>>
    /\ UNCHANGED <<generation, inserting, chunker, reingest, components, session, request>>

InitWait == InitRemote

\* The remote store may never answer: nothing obliges RpcEnd to happen.
NextWait ==
    \/ \E top_k \in TopKs, thr \in Thresholds : RpcStart(top_k, thr)
    \/ \E exec \in PendingExecutions : RpcEnd(exec)

SpecWait == InitWait /\ [][NextWait]_vars

\* C21: a search call cannot wait for the remote store for ever: while its
\* request is pending, the request carries a request timeout.
C21_PendingIsBounded ==
    RpcPending => \A i \in 1..Len(Val(rpc).sent) : ~IsNone(Val(rpc).sent[i].timeout)

\* C24: one search call sends the remote procedure at most one request, and
\* a call that has raised sent no request after the one that failed.
C24_NoRetry ==
    ~IsNone(rpc) =>
        /\ Len(Val(rpc).sent) <= 1
        /\ (RpcDone /\ Val(Val(rpc).res).kind # "ok") => Len(Val(rpc).sent) = 1

\* A search call has raised after its request failed in transport.
C24_Witness ==
    /\ RpcDone
    /\ Val(Val(rpc).res).kind = "transport"
    /\ Val(rpc).exec = Some(Raised("transport"))

-----------------------------------------------------------------------------
(* The call RAGPipeline.query makes on the generator of each backend       *)
(* (app/pipeline/rag_pipeline.py, app/llm/)                                *)

Parameter(name, required) == [name |-> name, required |-> required]

\* The parameters of generate(self, ...) of the generator get_generator
\* returns: local_generator.py 110-116, generator.py 66-71,
\* gemini_generator.py 40.
GenerateSignature(backend) ==
    IF backend = "local"
    THEN <<Parameter("query", TRUE), Parameter("context", TRUE),
           Parameter("max_tokens", FALSE), Parameter("format_answer", FALSE)>>
    ELSE IF backend = "api"
    THEN <<Parameter("query", TRUE), Parameter("context", TRUE),
           Parameter("max_tokens", FALSE)>>
    ELSE <<Parameter("prompt", TRUE), Parameter("context", FALSE)>>

\* rag_pipeline.py lines 84-87: generate(query=question, context=context)
QueryKeywords == {"query", "context"}

\* Python binds a call by keywords: a keyword that names no parameter and a
\* parameter without default that gets no value are TypeErrors.
BindKeywords(sig, keywords) ==
    LET names == {sig[i].name : i \in DOMAIN sig}
    IN  IF keywords \ names # {} THEN Raises("TypeError")
        ELSE IF \E i \in DOMAIN sig : sig[i].required /\ sig[i].name \notin keywords
        THEN Raises("TypeError")
        ELSE Returns("bound")

\* self.generator.generate(query=question, context=context): the body runs,
\* with its own outcome, only when the call binds
GenerateCall(backend, outcome) ==
    LET bound == BindKeywords(GenerateSignature(backend), QueryKeywords)
    IN  IF bound.kind # "ok" THEN bound ELSE outcome

\* The backends for which get_generator returns a generator.
GeneratorBackends == {"local", "api", "gemini"}

\* The contexts format_context hands over.
GenerateContexts == {SupabaseFormatContext(docs) : docs \in DocLists(RemoteDocs)}

\* rag_pipeline.py lines 83-87, on the pipeline that was constructed
PipelineGenerate(question, context, outcome) ==
    /\ ~IsNone(built) /\ Val(built).res.kind = "ok"
    /\ generation' = Some([backend |-> Val(built).backend, query |-> question,
                           context |-> context,
                           res |-> GenerateCall(Val(built).backend, outcome)])
    /\ UNCHANGED <<retrieverVars, callVars, repeatVars, threadVars>>
    /\ UNCHANGED <<formatted, documents, remoteCall, masked, touched, built, run, prev>>
    /\ UNCHANGED <<rpc, inserting, chunker, reingest, components, session, request>>

\* RAGPipeline() constructed under one of the backends
InitGenerate ==
    /\ RetrieverInit({None}, {None})
    /\ TOP_K_RESULTS = DEFAULT_TOP_K_RESULTS
    /\ tiePolicy = "low_index_first"
    /\ ToolsIdle
    /\ formatted = [r \in Retrievers |-> None]
    /\ documents = <<>>
    /\ remoteCall = None
    /\ masked = None
    /\ touched = {}
    /\ run = None
    /\ prev = None
    /\ \E backend \in GeneratorBackends :
           built = Some(Built("RAGPipeline.__init__", "supabase", backend, FALSE,
                              PipelineConstruction("supabase", backend, TRUE,
                                                   FALSE, FALSE).res))

NextGenerate ==
    \E question \in {<<"what">>, <<"iron">>}, context \in GenerateContexts,
       outcome \in GenerateOutcomes :
        PipelineGenerate(question, context, outcome)

SpecGenerate == InitGenerate /\ [][NextGenerate]_vars

\* C22: under every backend the generator accepts the call that
\* RAGPipeline.query makes: no call fails on its shape.
C22_CallAccepted ==
    ~IsNone(generation) => Val(generation).res.kind # "TypeError"

-----------------------------------------------------------------------------
(* The position a result of LocalRetriever.search carries                  *)

\* C23: every result of LocalRetriever.search carries the original position
\* of its row: its id is in 0..N-1 for the N stored rows, the ids of one
\* result list are pairwise distinct, and its text and page number are those
\* of the chunk stored at that position.
C23_IdIsPosition ==
    Returned =>
        /\ \A i \in 1..Len(result.docs) :
               LET doc == result.docs[i]
               IN  /\ doc["id"] \in 0..(NumRows - 1)
                   /\ doc["id"] + 1 \in 1..NumChunks
                   /\ doc.sentence_chunk = Val(chunks)[doc["id"] + 1].sentence_chunk
                   /\ doc.page_number = Val(chunks)[doc["id"] + 1].page_number
        /\ \A i, j \in 1..Len(result.docs) :
               result.docs[i]["id"] = result.docs[j]["id"] => i = j

\* A search returned two results and the best one is not the first row.
C23_Witness ==
    /\ Returned
    /\ Len(result.docs) = 2
    /\ result.docs[1]["id"] = 2
    /\ result.docs[2]["id"] = 0

-----------------------------------------------------------------------------
(* SupabaseVectorDB.insert_chunks, request by request                      *)
(* (app/vectorstore/vectordb.py)                                           *)

\* vectordb.py line 89
INSERT_BATCH_SIZE == 100

\* Numbers of chunks handed in: none, one, and around one and two batches.
InsertSizes == {0, 1, 99, 100, 101, 200, 201}

\* The i-th chunk handed in and the embedding computed for it.
InsertChunk(i) ==
    [page_number |-> 10 + i, sentence_chunk |-> i, chunk_char_count |-> 40,
     chunk_word_count |-> 8, chunk_token_count |-> 10]
InsertChunks(n) == [i \in 1..n |-> InsertChunk(i)]
InsertEmbeddings(m) == [j \in 1..m |-> Encode(j)]

\* Rows the remote table holds before the call.
OldRow(i) ==
    [page_number |-> i, chunk_text |-> 0 - i, chunk_char_count |-> 40,
     chunk_word_count |-> 8, chunk_token_count |-> 10, embedding |-> ZeroVector]
OldTables == {<<>>, <<OldRow(1)>>, <<OldRow(1), OldRow(2)>>}

\* line 70: the guard
SameLengthOrMore(chs, embs) == Len(chs) <= Len(embs)
SameLength(chs, embs) == Len(chs) = Len(embs)

\* lines 76-85: one row per pair of zip(chunks, embeddings)
DataToInsert(chs, embs) ==
    [i \in 1..Min(Len(chs), Len(embs)) |->
        [page_number |-> chs[i].page_number,
         chunk_text |-> chs[i].sentence_chunk,
         chunk_char_count |-> chs[i].chunk_char_count,
         chunk_word_count |-> chs[i].chunk_word_count,
         chunk_token_count |-> chs[i].chunk_token_count,
         embedding |-> embs[i]]]

Max(a, b) == IF a >= b THEN a ELSE b

\* A bound of a Python slice of a list of n items: a negative bound counts
\* from the end, and both ends are clamped to the list.
SliceBound(x, n) == IF x < 0 THEN Max(x + n, 0) ELSE Min(x, n)

\* seq[a:b] of Python, a and b counted from 0
PySlice(seq, a, b) ==
    SubSeq(seq, SliceBound(a, Len(seq)) + 1, SliceBound(b, Len(seq)))

\* line 91: batch = data_to_insert[i:i + batch_size]
BatchAtOverlapping(data, i) == PySlice(data, i, i + INSERT_BATCH_SIZE + 1)
BatchAt(data, i) == PySlice(data, i, i + INSERT_BATCH_SIZE)

\* How the store can treat one insert request: it stores the rows and
\* answers, it rejects the request, or it stores the rows and the answer
\* is lost on the way, so that execute() raises all the same.
InsertExecutions == {"stored", "rejected", "answer_lost"}

InsertIdle(table) ==
    [phase |-> "idle", chunks |-> <<>>, embeddings |-> <<>>, before |-> table,
     table |-> table, data |-> <<>>, i |-> 0, requests |-> <<>>, res |-> None]

\* lines 70-89: the guard, the rows, and the loop about to begin
InsertChunksStart(n, m) ==
    /\ inserting # <<>>
    /\ inserting.phase = "idle"
    /\ LET chs == InsertChunks(n)
           embs == InsertEmbeddings(m)
       IN  inserting' =
               IF ~SameLength(chs, embs)
               THEN [inserting EXCEPT !.phase = "raised", !.chunks = chs,
                                      !.embeddings = embs,
                                      !.res = Some(Raises("ValueError"))]
               ELSE [inserting EXCEPT !.phase = "inserting", !.chunks = chs,
                                      !.embeddings = embs,
                                      !.data = DataToInsert(chs, embs)]
    /\ UNCHANGED <<retrieverVars, callVars, repeatVars, threadVars>>
    /\ UNCHANGED <<formatted, documents, remoteCall, masked, touched, built, run, prev>>
    /\ UNCHANGED <<rpc, generation, chunker, reingest, components, session, request>>

\* lines 90-93 and 98-100: one turn of the loop sends one request
InsertChunksBatch(exec) ==
    /\ inserting # <<>>
    /\ inserting.phase = "inserting"
    /\ inserting.i < Len(inserting.data)
    /\ LET batch == BatchAt(inserting.data, inserting.i)
       IN  inserting' =
               [inserting EXCEPT
                   !.requests = Append(@, batch),
                   !.table = IF exec = "rejected" THEN @ ELSE @ \o batch,
                   !.i = IF exec = "stored" THEN @ + INSERT_BATCH_SIZE ELSE @,
                   !.phase = IF exec = "stored" THEN @ ELSE "raised",
                   !.res = IF exec = "stored" THEN @
                           ELSE Some(Raises("transport"))]
    /\ UNCHANGED <<retrieverVars, callVars, repeatVars, threadVars>>
    /\ UNCHANGED <<formatted, documents, remoteCall, masked, touched, built, run, prev>>
    /\ UNCHANGED <<rpc, generation, chunker, reingest, components, session, request>>

\* lines 90 and 95-96: the range is used up
InsertChunksReturn ==
    /\ inserting # <<>>
    /\ inserting.phase = "inserting"
    /\ inserting.i >= Len(inserting.data)
    /\ inserting' = [inserting EXCEPT !.phase = "returned",
                                      !.res = Some(Returns(TRUE))]
    /\ UNCHANGED <<retrieverVars, callVars, repeatVars, threadVars>>
    /\ UNCHANGED <<formatted, documents, remoteCall, masked, touched, built, run, prev>>
    /\ UNCHANGED <<rpc, generation, chunker, reingest, components, session, request>>

\* SupabaseVectorDB() against a table that holds some rows
InitInsert ==
    /\ RetrieverInit({None}, {None})
    /\ TOP_K_RESULTS = DEFAULT_TOP_K_RESULTS
    /\ tiePolicy = "low_index_first"
    /\ formatted = [r \in Retrievers |-> None]
    /\ documents = <<>>
    /\ remoteCall = None
    /\ masked = None
    /\ touched = {}
    /\ built = None
    /\ run = None
    /\ prev = None
    /\ rpc = <<>>
    /\ generation = <<>>
    /\ inserting \in {InsertIdle(table) : table \in OldTables}
    /\ chunker = <<>>
    /\ reingest = <<>>
    /\ components = {}
    /\ session = <<>>
    /\ request = <<>>

NextInsert ==
    \/ \E n \in InsertSizes, m \in InsertSizes \cup {2, 199} : InsertChunksStart(n, m)
    \/ \E exec \in InsertExecutions : InsertChunksBatch(exec)
    \/ InsertChunksReturn

SpecInsert == InitInsert /\ [][NextInsert]_vars

RECURSIVE Concat(_)
Concat(seqs) == IF seqs = <<>> THEN <<>> ELSE Head(seqs) \o Concat(Tail(seqs))

InsertCalled == inserting # <<>> /\ inserting.phase # "idle"
InsertAligned == Len(inserting.chunks) = Len(inserting.embeddings)
CeilDiv(n, d) == (n + d - 1) \div d

\* C25: insert_chunks with different numbers of chunks and embeddings
\* raises before any insert request is sent, and the remote table is as it
\* was.
C25_MismatchRaisesFirst ==
    (InsertCalled /\ ~InsertAligned) =>
        /\ inserting.phase = "raised"
        /\ inserting.res = Some(Raises("ValueError"))
        /\ inserting.requests = <<>>
        /\ inserting.table = inserting.before

\* insert_chunks was called with 101 chunks and 100 embeddings.
C25_Witness ==
    /\ InsertCalled
    /\ Len(inserting.chunks) = 101
    /\ Len(inserting.embeddings) = 100

\* C26: for n aligned chunks and embeddings the requests of insert_chunks
\* are the rows in input order cut into batches of 100, each chunk paired
\* with its own embedding: ceil(n/100) requests on return, every row in
\* exactly one of them. When a request fails the error propagates, no
\* request follows it, and the rows of the requests before it stay in the
\* table.
C26_BatchesInOrder ==
    (InsertCalled /\ InsertAligned) =>
        LET n == Len(inserting.chunks)
            reqs == inserting.requests
            sent == Concat(reqs)
        IN  /\ \A j \in 1..Len(reqs) : Len(reqs[j]) \in 1..INSERT_BATCH_SIZE
            /\ Len(reqs) <= CeilDiv(n, INSERT_BATCH_SIZE)
            /\ Len(sent) <= n
            /\ \A i \in 1..Len(sent) :
                   /\ sent[i].chunk_text = inserting.chunks[i].sentence_chunk
                   /\ sent[i].page_number = inserting.chunks[i].page_number
                   /\ sent[i].embedding = inserting.embeddings[i]
            /\ inserting.phase = "returned" =>
                   /\ Len(reqs) = CeilDiv(n, INSERT_BATCH_SIZE)
                   /\ Len(sent) = n
                   /\ inserting.res = Some(Returns(TRUE))
                   /\ inserting.table = inserting.before \o sent
            /\ inserting.phase = "raised" =>
                   /\ inserting.res = Some(Raises("transport"))
                   /\ Len(reqs) = inserting.i \div INSERT_BATCH_SIZE + 1
                   /\ LET earlier == Concat(SubSeq(reqs, 1, Len(reqs) - 1))
                      IN  /\ Len(earlier) = inserting.i
                          /\ SubSeq(inserting.table, 1,
                                    Len(inserting.before) + Len(earlier))
                                 = inserting.before \o earlier

\* The third request of an insert of 201 rows failed.
C26_Witness ==
    /\ InsertCalled
    /\ Len(inserting.chunks) = 201
    /\ inserting.phase = "raised"
    /\ Len(inserting.requests) = 3
    /\ Len(inserting.table) = Len(inserting.before) + 200

-----------------------------------------------------------------------------
(* ingest.chunk_page_by_sentences, turn by turn (ingest.py)                *)

MaxSents == 3

\* split_sentences(text): the sentences of a page, each by the number of
\* tokens enc.encode gives it; a sentence is not empty. The tokens of
\* " ".join(piece) are counted sentence by sentence.
SentenceLists == UNION {[1..n -> {1, 3}] : n \in 0..MaxSents}
RECURSIVE Tokens(_)
Tokens(piece) == IF piece = <<>> THEN 0 ELSE Head(piece) + Tokens(Tail(piece))

\* The parameters a caller can hand in, zero and negative ones included.
SentsPerChunk == -1..3
Overlaps == -1..3
MaxTokens == {0, 2, 4}
MinTokens == {0, 2}

\* line 55
StepRaw(sents_per_chunk, overlap) == sents_per_chunk - overlap
Step(sents_per_chunk, overlap) == Max(1, sents_per_chunk - overlap)

ChunkerAt(where) == chunker # <<>> /\ chunker.pc = where

\* lines 57-60: the loop test and the slice; an empty slice ends the loop
ChunkTurn ==
    /\ ChunkerAt("while")
    /\ chunker.i < Len(chunker.sents)
    /\ LET piece == PySlice(chunker.sents, chunker.i,
                            chunker.i + chunker.sents_per_chunk)
       IN  chunker' = IF piece = <<>>
                      THEN [chunker EXCEPT !.pc = "done", !.piece = <<>>]
                      ELSE [chunker EXCEPT !.pc = "trim", !.piece = piece]
    /\ UNCHANGED <<retrieverVars, callVars, repeatVars, threadVars>>
    /\ UNCHANGED <<formatted, documents, remoteCall, masked, touched, built, run, prev>>
    /\ UNCHANGED <<rpc, generation, inserting, reingest, components, session, request>>

\* line 66: the test of the trimming loop
TooLong ==
    /\ chunker.max_tokens # 0
    /\ Tokens(chunker.piece) > chunker.max_tokens
    /\ Len(chunker.piece) > 1

\* lines 66-69: one turn of the trimming loop
ChunkTrim ==
    /\ ChunkerAt("trim")
    /\ TooLong
    /\ chunker' = [chunker EXCEPT !.piece = PySlice(@, 0, -1)]
    /\ UNCHANGED <<retrieverVars, callVars, repeatVars, threadVars>>
    /\ UNCHANGED <<formatted, documents, remoteCall, masked, touched, built, run, prev>>
    /\ UNCHANGED <<rpc, generation, inserting, reingest, components, session, request>>

\* lines 71-74: the chunk is yielded when it is long enough; i += step
ChunkYield ==
    /\ ChunkerAt("trim")
    /\ ~TooLong
    /\ chunker' = [chunker EXCEPT
                      !.pc = "while",
                      !.out = IF Tokens(chunker.piece) >= chunker.min_tokens
                              THEN Append(@, chunker.piece) ELSE @,
                      !.piece = <<>>,
                      !.i = @ + Step(chunker.sents_per_chunk, chunker.overlap)]
    /\ UNCHANGED <<retrieverVars, callVars, repeatVars, threadVars>>
    /\ UNCHANGED <<formatted, documents, remoteCall, masked, touched, built, run, prev>>
    /\ UNCHANGED <<rpc, generation, inserting, reingest, components, session, request>>

\* line 57: the loop test fails and the generator is exhausted
ChunkStop ==
    /\ ChunkerAt("while")
    /\ chunker.i >= Len(chunker.sents)
    /\ chunker' = [chunker EXCEPT !.pc = "done"]
    /\ UNCHANGED <<retrieverVars, callVars, repeatVars, threadVars>>
    /\ UNCHANGED <<formatted, documents, remoteCall, masked, touched, built, run, prev>>
    /\ UNCHANGED <<rpc, generation, inserting, reingest, components, session, request>>

\* lines 53-55: the generator at its first loop test
InitChunk ==
    /\ RetrieverInit({None}, {None})
    /\ TOP_K_RESULTS = DEFAULT_TOP_K_RESULTS
    /\ tiePolicy = "low_index_first"
    /\ formatted = [r \in Retrievers |-> None]
    /\ documents = <<>>
    /\ remoteCall = None
    /\ masked = None
    /\ touched = {}
    /\ built = None
    /\ run = None
    /\ prev = None
    /\ rpc = <<>>
    /\ generation = <<>>
    /\ inserting = <<>>
    /\ \E sents \in SentenceLists, spc \in SentsPerChunk, overlap \in Overlaps,
          max_tokens \in MaxTokens, min_tokens \in MinTokens :
           chunker = [sents |-> sents, sents_per_chunk |-> spc,
                      overlap |-> overlap, max_tokens |-> max_tokens,
                      min_tokens |-> min_tokens, pc |-> "while", i |-> 0,
                      piece |-> <<>>, out |-> <<>>]
    /\ reingest = <<>>
    /\ components = {}
    /\ session = <<>>
    /\ request = <<>>

NextChunk == ChunkTurn \/ ChunkTrim \/ ChunkYield \/ ChunkStop

\* The consumer iterates the generator to its end (ingest.py line 109), so
\* a turn that can be taken is taken.
SpecChunk == InitChunk /\ [][NextChunk]_vars /\ WF_vars(NextChunk)

\* What is left to do: the sentences from i on, and within one turn the
\* sentences of the piece.
ChunkRank ==
    LET L == Len(chunker.sents)
        turns == (Max(L - chunker.i, 0) + 1) * (L + 3)
    IN  IF chunker.pc = "done" THEN 0
        ELSE IF chunker.pc = "while" THEN turns
        ELSE turns - (L + 2) + Len(chunker.piece)

\* C27: chunk_page_by_sentences terminates for every sentence list and
\* every choice of parameters, overlap >= sents_per_chunk included: every
\* step of the generator brings it closer to its end (the start index
\* advances by at least one per turn, and a trimming turn shortens the
\* piece, which stays at one sentence or more), and the generator is
\* exhausted in the end.
C27_Terminates ==
    /\ [][ChunkRank' < ChunkRank /\ ChunkRank' >= 0]_vars
    /\ <>ChunkerAt("done")

\* A generator with overlap >= sents_per_chunk has yielded a chunk per
\* sentence and is exhausted.
C27_Witness ==
    /\ ChunkerAt("done")
    /\ chunker.sents_per_chunk >= 1
    /\ chunker.overlap >= chunker.sents_per_chunk
    /\ Len(chunker.sents) = 3
    /\ Len(chunker.out) = 3

-----------------------------------------------------------------------------
(* ingest.main: delete, build, save, upload (ingest.py)                    *)

\* ingest.py line 22 and line 24
DOC_ID == "nutrition-v1"
BATCH_INSERT == 200

\* Numbers of chunks the document gives: none, one, around one and two
\* batches.
IngestSizes == {0, 1, 200, 201, 401}

\* A row of the remote table "chunks": of which document, which chunk, and
\* of which ingestion.
ChunkRow(doc_id, idx, content) ==
    [doc_id |-> doc_id, chunk_index |-> idx, content |-> content]

\* lines 133-141: the rows of this run
NewRows(n) == [p \in 1..n |-> ChunkRow(DOC_ID, p - 1, "new")]

\* The table before the run: empty, rows of an earlier ingestion of the
\* document, rows of another document among them.
OldChunkTables ==
    {<<>>,
     <<ChunkRow(DOC_ID, 0, "old"), ChunkRow(DOC_ID, 1, "old")>>,
     <<ChunkRow("other", 0, "old"), ChunkRow(DOC_ID, 0, "old")>>}

\* line 94: delete().eq("doc_id", DOC_ID)
DeleteNothing(table) == table
DeleteDoc(table) == SelectSeq(table, LAMBDA row : row.doc_id # DOC_ID)

IngestAt(where) == reingest # <<>> /\ reingest.phase = where

\* lines 88-96: with credentials the rows of the document are deleted first
IngestBegin(exec) ==
    /\ IngestAt("start")
    /\ reingest' =
           IF ~reingest.use_supabase THEN [reingest EXCEPT !.phase = "cleaned"]
           ELSE [reingest EXCEPT
                    !.table = IF exec = "rejected" THEN @ ELSE DeleteDoc(@),
                    !.phase = IF exec = "stored" THEN "cleaned" ELSE "raised",
                    !.failed = IF exec = "stored" THEN @ ELSE Some("delete")]
    /\ UNCHANGED <<retrieverVars, callVars, repeatVars, threadVars>>
    /\ UNCHANGED <<formatted, documents, remoteCall, masked, touched, built, run, prev>>
    /\ UNCHANGED <<rpc, generation, inserting, chunker, components, session, request>>

\* lines 98-157: pages, chunks, embeddings, rows, and the CSV file; an
\* exception of the embedder ends the run before the file is written
IngestBuild(n, embedded) ==
    /\ IngestAt("cleaned")
    /\ reingest' =
           IF ~embedded
           THEN [reingest EXCEPT !.phase = "raised", !.failed = Some("embed")]
           ELSE [reingest EXCEPT !.phase = "saved", !.rows = NewRows(n),
                                 !.csv = Some(NewRows(n))]
    /\ UNCHANGED <<retrieverVars, callVars, repeatVars, threadVars>>
    /\ UNCHANGED <<formatted, documents, remoteCall, masked, touched, built, run, prev>>
    /\ UNCHANGED <<rpc, generation, inserting, chunker, components, session, request>>

\* line 164: rows[j:j + BATCH_INSERT]
UploadBatch(rows, j) == PySlice(rows, j, j + BATCH_INSERT)

\* lines 163-173: one insert request; a failure whose message names
\* "dimensions" is reported and swallowed, any other is re-raised
IngestUpload(exec, dimensions) ==
    /\ IngestAt("saved")
    /\ reingest.use_supabase
    /\ reingest.j < Len(reingest.rows)
    /\ LET batch == UploadBatch(reingest.rows, reingest.j)
       IN  reingest' =
               [reingest EXCEPT
                   !.requests = @ + 1,
                   !.table = IF exec = "rejected" THEN @ ELSE @ \o batch,
                   !.j = IF exec = "stored" THEN @ + BATCH_INSERT ELSE @,
                   !.phase = IF exec = "stored" THEN @
                             ELSE IF dimensions THEN "skipped" ELSE "raised",
                   !.failed = IF exec = "stored" THEN @ ELSE Some(exec)]
    /\ UNCHANGED <<retrieverVars, callVars, repeatVars, threadVars>>
    /\ UNCHANGED <<formatted, documents, remoteCall, masked, touched, built, run, prev>>
    /\ UNCHANGED <<rpc, generation, inserting, chunker, components, session, request>>

\* lines 160-175: nothing is left to upload
IngestDone ==
    /\ IngestAt("saved")
    /\ ~reingest.use_supabase \/ reingest.j >= Len(reingest.rows)
    /\ reingest' = [reingest EXCEPT !.phase = "done"]
    /\ UNCHANGED <<retrieverVars, callVars, repeatVars, threadVars>>
    /\ UNCHANGED <<formatted, documents, remoteCall, masked, touched, built, run, prev>>
    /\ UNCHANGED <<rpc, generation, inserting, chunker, components, session, request>>

\* main() starts, with or without credentials, after an earlier run or not
InitIngest ==
    /\ RetrieverInit({None}, {None})
    /\ TOP_K_RESULTS = DEFAULT_TOP_K_RESULTS
    /\ tiePolicy = "low_index_first"
    /\ formatted = [r \in Retrievers |-> None]
    /\ documents = <<>>
    /\ remoteCall = None
    /\ masked = None
    /\ touched = {}
    /\ built = None
    /\ run = None
    /\ prev = None
    /\ rpc = <<>>
    /\ generation = <<>>
    /\ inserting = <<>>
    /\ chunker = <<>>
    /\ \E use_supabase \in BOOLEAN, table \in OldChunkTables :
           reingest = [use_supabase |-> use_supabase, phase |-> "start",
                       before |-> table, table |-> table,
                       csv |-> IF table = <<>> THEN None ELSE Some(table),
                       rows |-> <<>>, j |-> 0, requests |-> 0, failed |-> None]
    /\ components = {}
    /\ session = <<>>
    /\ request = <<>>

NextIngest ==
    \/ \E exec \in InsertExecutions : IngestBegin(exec)
    \/ \E n \in IngestSizes, embedded \in BOOLEAN : IngestBuild(n, embedded)
    \/ \E exec \in InsertExecutions, dimensions \in BOOLEAN :
           IngestUpload(exec, dimensions)
    \/ IngestDone

SpecIngest == InitIngest /\ [][NextIngest]_vars

\* The rows of the table that belong to the document, old and new.
OfDoc(table, content) ==
    SelectSeq(table, LAMBDA row : row.doc_id = DOC_ID /\ row.content = content)
UploadFailed ==
    /\ reingest # <<>>
    /\ reingest.phase \in {"raised", "skipped"}
    /\ reingest.failed \in {Some("rejected"), Some("answer_lost")}

-----------------------------------------------------------------------------
(* POST /api/query while startup has created all, some or none of the      *)
(* server's components (api_server.py)                                     *)

\* The server after a startup that got as far as some component; the
\* retriever, once created, holds the index read from the snapshot.
InitApi ==
    /\ tiePolicy = "low_index_first"
    /\ TOP_K_RESULTS \in EnvTopKs
    /\ components \in ComponentStates
    /\ IF "retriever" \in components
       THEN \E n \in IndexSizes :
                RetrieverInit({Some(SnapshotRows(n))}, {Some(ChunkList(n))})
       ELSE RetrieverInit({None}, {None})
    /\ formatted = [r \in Retrievers |-> None]
    /\ documents = <<>>
    /\ remoteCall = None
    /\ masked = None
    /\ touched = {}
    /\ built = None
    /\ run = None
    /\ prev = None
    /\ rpc = <<>>
    /\ generation = <<>>
    /\ inserting = <<>>
    /\ chunker = <<>>
    /\ reingest = <<>>
    /\ session = <<>>
    /\ request = <<>>

NextApi ==
    \E question \in Questions, emb \in EmbedOutcomes, gen \in GenerateOutcomes :
        ApiQuery(question, emb, gen)

SpecApi == InitApi /\ [][NextApi]_vars

Posted == ~IsNone(request) /\ Queried("/api/query")

\* C29: POST /api/query with an empty or whitespace-only question is
\* answered with status 400 and no stage has been invoked; a query that
\* arrives while one of embedder, retriever and generator is not
\* initialised is answered with an error response and no stage has been
\* invoked.
C29_RejectedBeforeStages ==
    Posted =>
        LET q == Val(request).question
            r == Val(run)
        IN  /\ (q = <<>> \/ \A i \in 1..Len(q) : q[i] = " ") =>
                   /\ r.res.kind = "HTTPException"
                   /\ r.res.value.status = 400
                   /\ r.stages = <<>>
            /\ components # ServerComponents =>
                   /\ r.res.kind = "HTTPException"
                   /\ r.res.value.status \in {400, 500}
                   /\ r.stages = <<>>

\* A question arrived while the generator was not yet created.
C29_Witness ==
    /\ Posted
    /\ Val(request).question = <<"what">>
    /\ components = {"embedder", "retriever"}
    /\ Val(run).res.value.status = 500

-----------------------------------------------------------------------------
(* The interactive question loops (app/main.py, app/local_workflow.py,      *)
(* test_retrieval.py)                                                      *)

MaxTurns == 3

InteractiveLoops == {"interactive_query", "interactive_query_local", "run_interactive"}

\* What a turn does with a question, in order: main.py 77-86,
\* local_workflow.py 141-159, test_retrieval.py 59-63.
LoopStages(loop) ==
    IF loop = "interactive_query" THEN <<"query", "show">>
    ELSE IF loop = "interactive_query_local"
    THEN <<"embed", "retrieve", "format", "generate", "show">>
    ELSE <<"embed", "retrieve", "show">>

\* What input("Question: ") gives: a line, or an exception when the user
\* interrupts or the input is closed.
Line(text) == [kind |-> "line", text |-> text]
InputEvents ==
    {Line(t) : t \in {<<>>, <<" ">>, <<"what">>, <<" ", "iron", " ">>,
                      <<"EXIT">>, <<"Quit">>, <<" ", "q">>, <<"Q">>,
                      <<"exit", " ", "now">>}}
    \cup {[kind |-> "KeyboardInterrupt", text |-> <<>>],
          [kind |-> "EOFError", text |-> <<>>]}

\* str.lower() on the words that occur in the input events
LowerWord(w) ==
    IF w = "EXIT" THEN "exit" ELSE IF w = "Quit" THEN "quit"
    ELSE IF w = "Q" THEN "q" ELSE w
Lower(text) == [i \in DOMAIN text |-> LowerWord(text[i])]

\* ['exit', 'quit', 'q']
ExitWords == {<<"exit">>, <<"quit">>, <<"q">>}

\* The except clauses: KeyboardInterrupt breaks, any other Exception is
\* reported and the loop goes on.
AfterExceptionBreak(e) == "break"
AfterException(e) == IF e = "KeyboardInterrupt" THEN "break" ELSE "continue"

TurnRecord(event, stages, exception, ended) ==
    [input |-> event, stages |-> stages, exception |-> exception,
     reported |-> ~IsNone(exception) /\ Val(exception) # "KeyboardInterrupt",
     ended |-> ended]

\* One turn of while True. fail_at is the stage that raises exc, 0 when
\* none does.
Turn(loop, event, fail_at, exc) ==
    IF event.kind # "line"
    THEN TurnRecord(event, <<>>, Some(event.kind),
                    AfterException(event.kind) = "break")
    ELSE LET question == Strip(event.text)
             stages == LoopStages(loop)
         IN  IF question = <<>> THEN TurnRecord(event, <<>>, None, FALSE)
             ELSE IF Lower(question) \in ExitWords
             THEN TurnRecord(event, <<>>, None, TRUE)
             ELSE IF fail_at = 0 \/ fail_at > Len(stages)
             THEN TurnRecord(event, stages, None, FALSE)
             ELSE TurnRecord(event, SubSeq(stages, 1, fail_at), Some(exc),
                             AfterException(exc) = "break")

\* A turn of the loop that is open.
Ask(event, fail_at, exc) ==
    /\ session # <<>>
    /\ session.open
    /\ session.turns < MaxTurns
    /\ LET t == Turn(session.loop, event, fail_at, exc)
       IN  session' = [session EXCEPT !.open = ~t.ended, !.turns = @ + 1,
                                      !.last = Some(t)]
    /\ UNCHANGED <<retrieverVars, callVars, repeatVars, threadVars>>
    /\ UNCHANGED <<formatted, documents, remoteCall, masked, touched, built, run, prev>>
    /\ UNCHANGED <<rpc, generation, inserting, chunker, reingest, components, request>>

\* One of the loops, at its first prompt
InitSession ==
    /\ RetrieverInit({None}, {None})
    /\ TOP_K_RESULTS = DEFAULT_TOP_K_RESULTS
    /\ tiePolicy = "low_index_first"
    /\ formatted = [r \in Retrievers |-> None]
    /\ documents = <<>>
    /\ remoteCall = None
    /\ masked = None
    /\ touched = {}
    /\ built = None
    /\ run = None
    /\ prev = None
    /\ rpc = <<>>
    /\ generation = <<>>
    /\ inserting = <<>>
    /\ chunker = <<>>
    /\ reingest = <<>>
    /\ components = {}
    /\ session \in {[loop |-> l, open |-> TRUE, turns |-> 0, last |-> None] :
                       l \in InteractiveLoops}
    /\ request = <<>>

NextSession ==
    \E event \in InputEvents, fail_at \in 0..5,
       exc \in {"RuntimeError", "KeyboardInterrupt"} :
        Ask(event, fail_at, exc)

SpecSession == InitSession /\ [][NextSession]_vars

Asked == session # <<>> /\ ~IsNone(session.last)
IsBlankLine(event) ==
    event.kind = "line" /\ \A i \in 1..Len(event.text) : event.text[i] = " "
IsExitLine(event) ==
    /\ event.kind = "line"
    /\ \E w \in {"exit", "quit", "q", "EXIT", "Quit", "Q"} :
           \E a, b \in 0..1 :
               event.text = [i \in 1..a |-> " "] \o <<w>> \o [i \in 1..b |-> " "]

\* C30: in the interactive loops an error while a question is processed is
\* reported and the loop stays open for the next question; a blank line
\* invokes no stage and the loop stays open; the loop is left only after
\* 'exit', 'quit' or 'q' in any case or after a keyboard interrupt.
C30_SessionSurvivesErrors ==
    Asked =>
        LET t == Val(session.last)
        IN  /\ (~IsNone(t.exception) /\ Val(t.exception) # "KeyboardInterrupt") =>
                   t.reported /\ session.open
            /\ IsBlankLine(t.input) => t.stages = <<>> /\ session.open
            /\ ~session.open =>
                   \/ IsExitLine(t.input)
                   \/ t.exception = Some("KeyboardInterrupt")
            /\ IsExitLine(t.input) => ~session.open /\ t.stages = <<>>

\* The generator failed in the second turn of the local workflow and the
\* loop is open.
C30_Witness ==
    /\ Asked
    /\ session.loop = "interactive_query_local"
    /\ session.turns = 2
    /\ Val(session.last).exception = Some("RuntimeError")
    /\ Val(session.last).stages = <<"embed", "retrieve", "format", "generate">>
    /\ session.open

====
